---- MODULE Spec2Model ----
(***************************************************************************)
(* Synchronous model of amlib's StereoConvolutionMAC                       *)
(* (src/amlib/dsp/stereo_convolution_mac.py).                              *)
(*                                                                         *)
(* One step of the model is one clock tick of the "sync" domain.  A state  *)
(* holds the registers and memories as they are during a tick, together    *)
(* with the values the surrounding bench drives on signal_in and on        *)
(* signal_out.ready during that same tick; Tick computes the registers of  *)
(* the following tick from them.  Words are kept as bit vectors (naturals  *)
(* below 2^width), signed signals as integers wrapped to their width.      *)
(***************************************************************************)
EXTENDS Integers, Sequences, FiniteSets, TLC

VARIABLES
    args,       \* arguments handed to StereoConvolutionMAC.__init__
    cfg,        \* the object's fields after __init__ (or the rejection)
    dut,        \* registers, memories and FSM state of elaborate()
    signal_in,  \* signal_in.{valid, first, last, payload} driven this tick
    out_ready,  \* signal_out.ready driven this tick (0 / 1)
    env,        \* the bench's discipline (how it drives the two streams)
    histL,      \* left samples transferred on signal_in so far
    histR,      \* right samples transferred on signal_in so far
    outs,       \* tokens shown with signal_out.valid = 1 so far
    elapsed,    \* ticks since the left sample of the current pair was taken
    args2,      \* a second engine fed the same tokens (parallelism check)
    cfg2,
    dut2,
    outs2,
    fir,        \* FixedPointFIRFilter: taps, registers, inputs driven this tick
    firBench,   \* what the FIR bench has fed and seen so far
    iir,        \* FixedPointIIRFilter: coefficients, registers, inputs
    iirBench,
    cic,        \* FixedPointCICFilter: parameters, registers, inputs
    cicBench,
    hb,         \* FixedPointHBFilter: taps, registers, inputs
    hbBench,
    unit        \* the one other component a specification instantiates

\* the variables of the StereoConvolutionMAC and of the filters
convVars == <<args, cfg, dut, signal_in, out_ready, env, histL, histR, outs,
              elapsed, args2, cfg2, dut2, outs2>>
filterVars == <<fir, firBench, iir, iirBench, cic, cicBench, hb, hbBench>>
unitVars == <<unit>>

vars == <<args, cfg, dut, signal_in, out_ready, env, histL, histR, outs,
          elapsed, args2, cfg2, dut2, outs2,
          fir, firBench, iir, iirBench, cic, cicBench, hb, hbBench,
          unit>>

\* a component that the specification at hand does not instantiate
Absent == [kind |-> "absent"]

UnitsAbsent == unit = Absent

\* the component held by unit, under the name of what it is: a filter
\* constructor converting its coefficients, a Filterbank, a
\* FractionalResampler, a ConstantStreamGenerator, a Timer, a
\* DividingCounter, the bench's probe on a StereoConvolutionMAC, or a
\* serial and a parallel FixedPointFIRFilter side by side
quant == unit
bank == unit
rs == unit
gen == unit
timer == unit
divider == unit
probe == unit
pair == unit

FiltersAbsent ==
    /\ fir = Absent /\ firBench = Absent
    /\ iir = Absent /\ iirBench = Absent
    /\ cic = Absent /\ cicBench = Absent
    /\ hb = Absent /\ hbBench = Absent

(***************************************************************************)
(* Bounds of the model.                                                    *)
(***************************************************************************)
\* bitwidth argument of the constructor (24 in the source's default)
BitWidth == 3
\* number of input pairs the bench feeds before it stops
MaxPairs == 3
\* cap of the elapsed-ticks observer
MaxElapsed == 14

(***************************************************************************)
(* Bit-vector helpers (Amaranth value semantics).                          *)
(***************************************************************************)
RECURSIVE Pow2(_)
Pow2(n) == IF n <= 0 THEN 1 ELSE 2 * Pow2(n - 1)

\* assignment to an unsigned signal of width w keeps the low w bits
Trunc(v, w) == v % Pow2(w)

\* Value.as_signed(): reinterpret a w-bit vector as two's complement
AsSigned(v, w) == IF w > 0 /\ v >= Pow2(w - 1) THEN v - Pow2(w) ELSE v

\* assignment to a signed signal of width w wraps modulo 2^w
WrapSigned(v, w) == AsSigned(Trunc(v, w), w)

\* word[i*bitwidth : (i+1)*bitwidth]
Slot(word, i) == (word \div Pow2(i * BitWidth)) % Pow2(BitWidth)

\* amaranth._utils.bits_for(n) for n >= 0, the width of Signal(range(n + 1))
RECURSIVE BitLength(_)
BitLength(n) == IF n <= 0 THEN 0 ELSE 1 + BitLength(n \div 2)
bits_for(n) == IF n > 0 THEN BitLength(n) ELSE 1

MinVal == -Pow2(BitWidth - 1)
MaxVal == Pow2(BitWidth - 1) - 1

(***************************************************************************)
(* StereoConvolutionMAC.__init__                                           *)
(***************************************************************************)
\* math.ceil(a / b) for naturals a, b > 0
CeilDiv(a, b) == (a + b - 1) \div b

\* mutant: int(...) + 1 in place of math.ceil(...)
SlicesOf_FloorPlusOne(a) == ((Len(a.taps) * a.samplerate) \div a.clockfrequency) + 1

\* self._slices = math.ceil(self._tapcount / (clockfrequency / samplerate)).
\* The source divides in floating point; on the argument ranges used here
\* (tapcount, clockfrequency, samplerate <= 10) the float result equals the
\* exact quotient tapcount * samplerate / clockfrequency.
SlicesOf(a) == CeilDiv(Len(a.taps) * a.samplerate, a.clockfrequency)

\* taps_fp_mod / taps2_fp_mod: word w packs taps w*slices .. w*slices+slices-1,
\* tap w*slices+j shifted left by (slices-j-1)*bitwidth, summed as Python
\* integers and stored in a memory word of slices*bitwidth bits.
RECURSIVE PackSum(_, _, _, _, _)
PackSum(taps, ch, i, j, slices) ==
    IF j >= slices THEN 0
    ELSE taps[i + j + 1][ch] * Pow2((slices - j - 1) * BitWidth)
         + PackSum(taps, ch, i, j + 1, slices)

PackTaps(taps, ch, slices, depth) ==
    [w \in 0..(depth - 1) |->
        Trunc(PackSum(taps, ch, w * slices, 0, slices), slices * BitWidth)]

Constructed(a) ==
    LET tapcount == Len(a.taps)
        slices   == SlicesOf(a)
        sps      == tapcount \div slices
    IN  IF tapcount % slices # 0
        THEN [status |-> "rejected", tapcount |-> tapcount, slices |-> slices,
              samples_per_slice |-> sps, size_of_slizes |-> BitWidth * slices,
              convolutionMode |-> a.convolutionMode,
              taps1_memory |-> <<>>, taps2_memory |-> <<>>]
        ELSE [status |-> "ok", tapcount |-> tapcount, slices |-> slices,
              samples_per_slice |-> sps, size_of_slizes |-> BitWidth * slices,
              convolutionMode |-> a.convolutionMode,
              taps1_memory |-> PackTaps(a.taps, 1, slices, sps),
              taps2_memory |-> PackTaps(a.taps, 2, slices, sps)]

NotConstructed == [status |-> "new"]

(***************************************************************************)
(* Reset state of elaborate(): every register and the sample memories 0.   *)
(***************************************************************************)
ResetDut(c) ==
    [fsm |-> "IDLE", set1 |-> 0, set2 |-> 0, output_channels |-> 0, ix |-> 0,
     previous_sample1 |-> 0, previous_sample2 |-> 0,
     current_sample1 |-> 0, current_sample2 |-> 0,
     carryover1 |-> 0, carryover1_2 |-> 0, carryover2 |-> 0, carryover2_2 |-> 0,
     madd_values |-> [i \in 0..(2 * c.slices - 1) |-> 0],
     sumSignalL |-> 0, sumSignalR |-> 0,
     valid |-> 0, payload |-> 0, first |-> 0, last |-> 0,
     w1_data |-> 0, w1_addr |-> 0, w1_en |-> 0,
     w2_data |-> 0, w2_addr |-> 0, w2_en |-> 0,
     samples1_memory |-> [w \in 0..(c.samples_per_slice - 1) |-> 0],
     samples2_memory |-> [w \in 0..(c.samples_per_slice - 1) |-> 0],
     latch_addr |-> 0]

NoDut == [fsm |-> "NONE"]

(***************************************************************************)
(* Memory ports.  All four read ports are synchronous and transparent and  *)
(* take ix as address: the address is latched on the clock edge and the    *)
(* data output shows the (already written) word at the latched address.    *)
(***************************************************************************)
\* width of a port's addr, Signal(range(depth))
AddrWidth(c) == bits_for(c.samples_per_slice - 1)

\* width of ix, Signal(range(samples_per_slice + 1))
IxWidth(c) == bits_for(c.samples_per_slice)

\* an address beyond the last word selects the last word (Array indexing)
ReadData(mem, addr, depth) == mem[IF addr >= depth THEN depth - 1 ELSE addr]

\* a write port commits data at addr on the edge that ends a tick with en = 1
WritePort(mem, en, addr, data, depth) ==
    IF en = 1
    THEN [mem EXCEPT ![IF addr >= depth THEN depth - 1 ELSE addr] = data]
    ELSE mem

\* mutant: ready raised in IDLE without the Else of "If(set1 & set2)"
SignalInReady_AlwaysInIdle(d) == IF d.fsm = "IDLE" THEN 1 ELSE 0

\* signal_in.ready (combinational): 0 by default, 1 in IDLE unless set1 & set2
SignalInReady(d) ==
    IF d.fsm = "IDLE" /\ ~(d.set1 = 1 /\ d.set2 = 1) THEN 1 ELSE 0

(***************************************************************************)
(* elaborate(): the unconditional m.d.sync statements and the ports.       *)
(***************************************************************************)
SyncDefaults(c, d) ==
    LET depth == c.samples_per_slice
        rd1   == ReadData(d.samples1_memory, d.latch_addr, depth)
        rd2   == ReadData(d.samples2_memory, d.latch_addr, depth)
    IN  [d EXCEPT
            !.valid = 0,
            !.w1_en = 0,
            !.w2_en = 0,
            !.previous_sample1 = rd1,
            !.previous_sample2 = rd2,
            !.carryover1   = AsSigned(Slot(rd1, 0), BitWidth),
            !.carryover1_2 = d.carryover1,
            !.carryover2   = AsSigned(Slot(rd2, 0), BitWidth),
            !.carryover2_2 = d.carryover2,
            !.samples1_memory =
                WritePort(d.samples1_memory, d.w1_en, d.w1_addr, d.w1_data, depth),
            !.samples2_memory =
                WritePort(d.samples2_memory, d.w2_en, d.w2_addr, d.w2_data, depth),
            !.latch_addr = Trunc(d.ix, AddrWidth(c))]

(***************************************************************************)
(* FSM state IDLE.  b is the state after the defaults, d the current one.  *)
(***************************************************************************)
\* mutant: the new sample replaces the field of the oldest sample of the word
SampleValue_LowField(c, rd, payload) ==
    (rd - Slot(rd, 0)) + Trunc(payload, BitWidth)

\* Cat(samples_read_port.data[:-bitwidth], signal_in.payload.as_signed())
SampleValue(c, rd, payload) ==
    Trunc(rd, (c.slices - 1) * BitWidth)
    + Trunc(payload, BitWidth) * Pow2((c.slices - 1) * BitWidth)

IdleState(c, d, b, si) ==
    LET depth == c.samples_per_slice
        rd1   == ReadData(d.samples1_memory, d.latch_addr, depth)
        rd2   == ReadData(d.samples2_memory, d.latch_addr, depth)
        store1 == si.valid = 1 /\ si.first = 1 /\ d.set1 = 0
        store2 == ~store1 /\ si.valid = 1 /\ si.last = 1 /\ d.set2 = 0
        b1 == IF store1
              THEN [b EXCEPT !.w1_data = SampleValue(c, rd1, si.payload),
                             !.w1_addr = 0, !.w1_en = 1, !.set1 = 1]
              ELSE IF store2
              THEN [b EXCEPT !.w2_data = SampleValue(c, rd2, si.payload),
                             !.w2_addr = 0, !.w2_en = 1, !.set2 = 1]
              ELSE b
    IN  IF d.set1 = 1 /\ d.set2 = 1
        THEN [b1 EXCEPT
                !.ix = 0,
                !.madd_values = [i \in 0..(2 * c.slices - 1) |-> 0],
                !.previous_sample1 = 0, !.previous_sample2 = 0,
                !.current_sample1 = 0, !.current_sample2 = 0,
                !.carryover1 = 0, !.carryover1_2 = 0,
                !.carryover2 = 0, !.carryover2_2 = 0,
                !.fsm = "MAC"]
        ELSE b1

(***************************************************************************)
(* FSM state MAC.                                                          *)
(***************************************************************************)
\* mutant: the MONO branch copied from STEREO, right channel on the bleed tap
MaddTerm_MonoUsesBleed(mode, right, left_sample, right_sample, main_tap, bleed_tap) ==
    CASE mode = "CROSSFEED" ->
            IF right THEN right_sample * main_tap + left_sample * bleed_tap
                     ELSE left_sample * main_tap + right_sample * bleed_tap
      [] mode \in {"STEREO", "MONO"} ->
            IF right THEN right_sample * bleed_tap
                     ELSE left_sample * main_tap

\* the product terms added to madd_values[i] (left half) and
\* madd_values[i + slices] (right half) for slice i, by convolution mode
MaddTerm(mode, right, left_sample, right_sample, main_tap, bleed_tap) ==
    CASE mode = "CROSSFEED" ->
            IF right THEN right_sample * main_tap + left_sample * bleed_tap
                     ELSE left_sample * main_tap + right_sample * bleed_tap
      [] mode = "STEREO" ->
            IF right THEN right_sample * bleed_tap
                     ELSE left_sample * main_tap
      [] mode = "MONO" ->
            IF right THEN right_sample * main_tap
                     ELSE left_sample * main_tap

\* mutant: the word written back without the shift by one sample
ShiftedWord_NoShift(c, previous_sample, carryover_2) ==
    Trunc(previous_sample, (c.slices - 1) * BitWidth)
    + Trunc(carryover_2, BitWidth) * Pow2((c.slices - 1) * BitWidth)

\* Cat((previous_sample >> bitwidth)[:(slices-1)*bitwidth], carryover_2)
ShiftedWord(c, previous_sample, carryover_2) ==
    Trunc(previous_sample \div Pow2(BitWidth), (c.slices - 1) * BitWidth)
    + Trunc(carryover_2, BitWidth) * Pow2((c.slices - 1) * BitWidth)

MacState(c, d, b) ==
    LET depth == c.samples_per_slice
        S     == c.slices
        rd1   == ReadData(d.samples1_memory, d.latch_addr, depth)
        rd2   == ReadData(d.samples2_memory, d.latch_addr, depth)
        rt1   == ReadData(c.taps1_memory, d.latch_addr, depth)
        rt2   == ReadData(c.taps2_memory, d.latch_addr, depth)
        term(k) ==
            LET i == IF k < S THEN k ELSE k - S
            IN  MaddTerm(c.convolutionMode, k >= S,
                         AsSigned(Slot(rd1, i), BitWidth),
                         AsSigned(Slot(rd2, i), BitWidth),
                         AsSigned(Slot(rt1, i), BitWidth),
                         AsSigned(Slot(rt2, i), BitWidth))
        b1 == IF d.ix <= depth /\ d.ix > 0
              THEN [b EXCEPT !.madd_values =
                        [k \in 0..(2 * S - 1) |->
                            WrapSigned(d.madd_values[k] + term(k), 2 * BitWidth)]]
              ELSE b
        b2 == IF d.ix > 1
              THEN [b1 EXCEPT
                      !.w1_data = ShiftedWord(c, d.previous_sample1, d.carryover1_2),
                      !.w1_addr = Trunc(d.ix - 2, AddrWidth(c)),
                      !.w1_en   = 1,
                      !.w2_data = ShiftedWord(c, d.previous_sample2, d.carryover2_2),
                      !.w2_addr = Trunc(d.ix - 2, AddrWidth(c)),
                      !.w2_en   = 1]
              ELSE b1
    IN  IF d.ix = depth + 1
        THEN [b2 EXCEPT !.fsm = "SUM"]
        ELSE [b2 EXCEPT !.ix = Trunc(d.ix + 1, IxWidth(c))]

(***************************************************************************)
(* FSM state SUM.                                                          *)
(***************************************************************************)
RECURSIVE SumRange(_, _, _)
SumRange(f, lo, hi) == IF lo > hi THEN 0 ELSE f[lo] + SumRange(f, lo + 1, hi)

SumState(c, d, b) ==
    [b EXCEPT
        !.sumSignalL = WrapSigned(SumRange(d.madd_values, 0, c.slices - 1),
                                  2 * BitWidth),
        !.sumSignalR = WrapSigned(SumRange(d.madd_values, c.slices,
                                           2 * c.slices - 1), 2 * BitWidth),
        !.output_channels = 0,
        !.fsm = "OUTPUT"]

(***************************************************************************)
(* FSM state OUTPUT.                                                       *)
(***************************************************************************)
\* mutant: the Mux arms exchanged
OutputPayload_Swapped(d) ==
    Trunc((IF d.output_channels = 0 THEN d.sumSignalR ELSE d.sumSignalL)
              \div Pow2(BitWidth), BitWidth)

\* Mux(output_channels == 0, sumSignalL >> bitwidth, sumSignalR >> bitwidth)
\* assigned to the bitwidth-wide payload
OutputPayload(d) ==
    Trunc((IF d.output_channels = 0 THEN d.sumSignalL ELSE d.sumSignalR)
              \div Pow2(BitWidth), BitWidth)

\* mutant: set1 and set2 are left as they are
OutputState_KeepsFlags(c, d, b, ready) ==
    LET b1 == [b EXCEPT !.ix = 0]
    IN  IF d.output_channels = 2
        THEN [b1 EXCEPT !.fsm = "IDLE"]
        ELSE IF ready = 1
        THEN [b1 EXCEPT
                !.output_channels = Trunc(d.output_channels + 1, 2),
                !.payload = OutputPayload(d),
                !.valid   = 1,
                !.first   = 1 - (d.output_channels % 2),
                !.last    = d.output_channels % 2]
        ELSE b1

OutputState(c, d, b, ready) ==
    LET b1 == [b EXCEPT !.set1 = 0, !.set2 = 0, !.ix = 0]
    IN  IF d.output_channels = 2
        THEN [b1 EXCEPT !.fsm = "IDLE"]
        ELSE IF ready = 1
        THEN [b1 EXCEPT
                !.output_channels = Trunc(d.output_channels + 1, 2),
                !.payload = OutputPayload(d),
                !.valid   = 1,
                !.first   = 1 - (d.output_channels % 2),
                !.last    = d.output_channels % 2]
        ELSE b1

(***************************************************************************)
(* One clock tick of the engine.                                           *)
(***************************************************************************)
Step(c, d, si, ready) ==
    LET b == SyncDefaults(c, d)
    IN  CASE d.fsm = "IDLE"   -> IdleState(c, d, b, si)
          [] d.fsm = "MAC"    -> MacState(c, d, b)
          [] d.fsm = "SUM"    -> SumState(c, d, b)
          [] d.fsm = "OUTPUT" -> OutputState(c, d, b, ready)

(***************************************************************************)
(* The bench around the engine.  It follows the stream handshake: a token  *)
(* put on signal_in stays until a tick on which signal_in.ready is high.   *)
(* env.order: "lr" feeds left (first) then right (last); "any" feeds the   *)
(* two tokens of a pair in either order; "free" feeds tokens with any      *)
(* first and last flags, 2 * MaxPairs of them at most.  env.prompt: the    *)
(* next token is put up on the tick after a transfer; otherwise the bench  *)
(* may wait.                                                               *)
(* env.ready: "high" holds signal_out.ready at 1; "any" drives it freely.  *)
(***************************************************************************)
NoToken == [valid |-> 0, first |-> 0, last |-> 0, payload |-> 0]

LeftToken(v)  == [valid |-> 1, first |-> 1, last |-> 0, payload |-> Trunc(v, BitWidth)]
RightToken(v) == [valid |-> 1, first |-> 0, last |-> 1, payload |-> Trunc(v, BitWidth)]

\* the number of pairs the bench feeds: MaxPairs unless the bench names its own
PairsOf(e) == IF "pairs" \in DOMAIN e THEN e.pairs ELSE MaxPairs

\* the tokens the bench may put up next, given the samples fed so far
NextTokens(e, nL, nR) ==
    LET lefts  == {LeftToken(v)  : v \in e.samples}
        rights == {RightToken(v) : v \in e.samples}
        tagged == {[valid |-> 1, first |-> f, last |-> l,
                    payload |-> Trunc(v, BitWidth)] :
                       f \in {0, 1}, l \in {0, 1}, v \in e.samples}
        toks   == IF e.order = "free"
                  THEN (IF nL + nR >= 2 * MaxPairs THEN {} ELSE tagged)
                  ELSE IF nL > nR THEN rights
                  ELSE IF nR > nL THEN lefts
                  ELSE IF nL >= PairsOf(e) THEN {}
                  ELSE IF e.order = "lr" THEN lefts
                  ELSE lefts \cup rights
    IN  IF e.prompt /\ toks # {} THEN toks ELSE toks \cup {NoToken}

ReadyValues(e) == IF e.ready = "high" THEN {1} ELSE {0, 1}

\* the observers' update for one tick; accepted says whether the token on
\* signal_in is transferred on this tick, d1 is the engine after the tick
Observe(accepted, d1) ==
    /\ histL' = IF accepted /\ signal_in.first = 1
                THEN Append(histL, AsSigned(signal_in.payload, BitWidth))
                ELSE histL
    /\ histR' = IF accepted /\ signal_in.first = 0
                THEN Append(histR, AsSigned(signal_in.payload, BitWidth))
                ELSE histR
    /\ elapsed' = IF accepted /\ signal_in.first = 1 THEN 1
                  ELSE IF elapsed = 0 THEN 0
                  ELSE IF dut.fsm = "IDLE" /\ dut.set1 = 0 /\ dut.set2 = 0 THEN 0
                  ELSE IF elapsed >= MaxElapsed THEN MaxElapsed
                  ELSE elapsed + 1
    /\ signal_in' \in IF signal_in.valid = 1 /\ ~accepted
                      THEN {signal_in}
                      ELSE NextTokens(env, Len(histL'), Len(histR'))
    /\ out_ready' \in ReadyValues(env)

Shown(d) == [payload |-> d.payload, first |-> d.first, last |-> d.last]

(***************************************************************************)
(* Actions.                                                                *)
(***************************************************************************)
Construct ==
    /\ cfg.status = "new"
    /\ args2 = <<>>
    /\ cfg' = Constructed(args)
    /\ dut' = IF cfg'.status = "ok" THEN ResetDut(cfg') ELSE NoDut
    /\ UNCHANGED <<args, signal_in, out_ready, env, histL, histR, outs, elapsed,
                   args2, cfg2, dut2, outs2, filterVars, unitVars>>

Tick ==
    /\ cfg.status = "ok"
    /\ args2 = <<>>
    /\ LET accepted == signal_in.valid = 1 /\ SignalInReady(dut) = 1
           d1 == Step(cfg, dut, signal_in, out_ready)
       IN  /\ dut' = d1
           /\ outs' = IF d1.valid = 1 THEN Append(outs, Shown(d1)) ELSE outs
           /\ Observe(accepted, d1)
    /\ UNCHANGED <<args, cfg, env, args2, cfg2, dut2, outs2, filterVars, unitVars>>

\* two engines built from the same taps and mode with different clock
\* frequencies; the bench raises valid only when both are ready, so both
\* take the same token on the same tick
ConstructBoth ==
    /\ cfg.status = "new"
    /\ args2 # <<>>
    /\ cfg' = Constructed(args)
    /\ cfg2' = Constructed(args2)
    /\ dut' = IF cfg'.status = "ok" THEN ResetDut(cfg') ELSE NoDut
    /\ dut2' = IF cfg2'.status = "ok" THEN ResetDut(cfg2') ELSE NoDut
    /\ UNCHANGED <<args, signal_in, out_ready, env, histL, histR, outs, elapsed,
                   args2, outs2, filterVars, unitVars>>

TickBoth ==
    /\ cfg.status = "ok"
    /\ args2 # <<>>
    /\ cfg2.status = "ok"
    /\ LET both == SignalInReady(dut) = 1 /\ SignalInReady(dut2) = 1
           accepted == signal_in.valid = 1 /\ both
           si == IF both THEN signal_in ELSE NoToken
           d1 == Step(cfg, dut, si, out_ready)
           d2 == Step(cfg2, dut2, si, out_ready)
       IN  /\ dut' = d1
           /\ dut2' = d2
           /\ outs' = IF d1.valid = 1 THEN Append(outs, Shown(d1)) ELSE outs
           /\ outs2' = IF d2.valid = 1 THEN Append(outs2, Shown(d2)) ELSE outs2
           /\ Observe(accepted, d1)
    /\ UNCHANGED <<args, cfg, env, args2, cfg2, filterVars, unitVars>>

(***************************************************************************)
(* Constructor arguments and bench disciplines the specifications use.     *)
(***************************************************************************)
Modes == {"CROSSFEED", "STEREO", "MONO"}

Args(taps, clockfrequency, mode) ==
    [taps |-> taps, samplerate |-> 1, clockfrequency |-> clockfrequency,
     convolutionMode |-> mode]

\* two taps, four taps (with negative and extreme values), one tap
Taps2 == << <<MaxVal, -1>>, <<MinVal, 1>> >>
Taps4 == << <<MinVal, 1>>, <<-1, MaxVal>>, <<2, -2>>, <<1, MinVal>> >>
Taps1 == << <<MaxVal, MinVal>> >>
Taps3 == << <<1, 1>>, <<-1, 2>>, <<2, -1>> >>

InitWith(A, E) ==
    /\ args \in A
    /\ env \in E
    /\ cfg = NotConstructed
    /\ dut = NoDut
    /\ signal_in = NoToken
    /\ out_ready \in ReadyValues(env)
    /\ histL = <<>>
    /\ histR = <<>>
    /\ outs = <<>>
    /\ elapsed = 0
    /\ args2 = <<>>
    /\ cfg2 = NotConstructed
    /\ dut2 = NoDut
    /\ outs2 = <<>>
    /\ FiltersAbsent /\ UnitsAbsent

\* the general specification: any readiness of the consumer, either channel
\* order, any pauses of the producer
MainArgs ==
    {Args(Taps2, 2, "STEREO"),       \* slices 1, samples_per_slice 2
     Args(Taps4, 2, "CROSSFEED"),    \* slices 2, samples_per_slice 2
     Args(Taps4, 2, "MONO"),
     Args(Taps1, 1, "MONO"),         \* slices 1, samples_per_slice 1
     Args(Taps3, 2, "STEREO")}       \* slices 2: rejected

MainEnv ==
    {[ready |-> "any", order |-> "any", prompt |-> FALSE,
      samples |-> {MinVal, MaxVal}]}

Init == InitWith(MainArgs, MainEnv)

Next == Construct \/ Tick

Spec == Init /\ [][Next]_vars

(***************************************************************************)
(* Further specifications: the same actions from other arguments/benches.  *)
(***************************************************************************)
\* signal_out.ready held high, left then right, no pauses (as in test_fir)
ReadyEnv ==
    {[ready |-> "high", order |-> "lr", prompt |-> TRUE,
      samples |-> {MinVal, -1, MaxVal}]}

ReadyArgs ==
    {Args(Taps2, 2, m) : m \in Modes}
    \cup {Args(Taps4, 2, m) : m \in Modes}
    \cup {Args(Taps4, 4, m) : m \in Modes}

InitReady == InitWith(ReadyArgs, ReadyEnv)

SpecReady == InitReady /\ [][Next]_vars

\* MONO engines whose only non-zero tap is t0 at index 0
GainTaps(n, t0) == [t \in 1..n |-> IF t = 1 THEN <<t0, 0>> ELSE <<0, 0>>]

GainArgs ==
    {Args(GainTaps(2, t0), 2, "MONO") : t0 \in MinVal..MaxVal}
    \cup {Args(GainTaps(4, t0), 2, "MONO") : t0 \in MinVal..MaxVal}
    \cup {Args(GainTaps(4, t0), 4, "MONO") : t0 \in MinVal..MaxVal}

GainEnv ==
    {[ready |-> "high", order |-> "any", prompt |-> TRUE,
      samples |-> {MinVal, MaxVal}]}

InitGain == InitWith(GainArgs, GainEnv)

SpecGain == InitGain /\ [][Next]_vars

\* the clock never stops: weak fairness of Tick
FairArgs ==
    {Args(Taps1, 1, "MONO"), Args(Taps2, 2, "STEREO"), Args(Taps3, 3, "CROSSFEED"),
     Args(Taps4, 2, "CROSSFEED")}

InitFair == InitWith(FairArgs, ReadyEnv)

SpecFair == InitFair /\ [][Next]_vars /\ WF_vars(Tick)

\* constructor arguments over a grid of tap counts and frequencies
MaxTapcount == 6
MaxClock == 6
MaxRate == 3

ZeroTaps(n) == [t \in 1..n |-> <<0, 0>>]

CtorArgs ==
    {[taps |-> ZeroTaps(n), samplerate |-> sr, clockfrequency |-> clk,
      convolutionMode |-> "MONO"] :
        n \in 1..MaxTapcount, sr \in 1..MaxRate, clk \in 1..MaxClock}

CtorEnv ==
    {[ready |-> "high", order |-> "lr", prompt |-> TRUE, samples |-> {1}]}

InitCtor == InitWith(CtorArgs, CtorEnv)

SpecCtor == InitCtor /\ [][Next]_vars

\* two engines on the same taps: clockfrequency 4 (slices 1) and 2 (slices 2)
InitPar ==
    /\ args \in {Args(Taps4, 4, m) : m \in Modes}
    /\ args2 = Args(args.taps, 2, args.convolutionMode)
    /\ env \in ReadyEnv
    /\ cfg = NotConstructed
    /\ cfg2 = NotConstructed
    /\ dut = NoDut
    /\ dut2 = NoDut
    /\ signal_in = NoToken
    /\ out_ready = 1
    /\ histL = <<>>
    /\ histR = <<>>
    /\ outs = <<>>
    /\ outs2 = <<>>
    /\ elapsed = 0
    /\ FiltersAbsent /\ UnitsAbsent

NextPar == ConstructBoth \/ TickBoth

SpecPar == InitPar /\ [][NextPar]_vars

(***************************************************************************)
(* Reference values and observers used by the properties.                  *)
(***************************************************************************)
Built == cfg.status = "ok"

Abs(x) == IF x < 0 THEN -x ELSE x
Min(a, b) == IF a < b THEN a ELSE b
Max(a, b) == IF a > b THEN a ELSE b

\* StereoConvolutionMACTest.calculate_expected_result: the sum for output
\* sample `sample` of one channel over taps tap, tap+1, ... (tap <= sample),
\* with hL[1..], hR[1..] the input pairs 0.. and taps[1..] the taps 0..
RECURSIVE ExpectedSum(_, _, _, _, _, _, _)
ExpectedSum(taps, hL, hR, mode, right, sample, tap) ==
    IF tap >= Len(taps) \/ tap > sample THEN 0
    ELSE LET l  == hL[sample - tap + 1]
             r  == hR[sample - tap + 1]
             t0 == taps[tap + 1][1]
             t1 == taps[tap + 1][2]
             v  == CASE mode = "CROSSFEED" ->
                           IF right THEN r * t0 + l * t1 ELSE l * t0 + r * t1
                     [] mode = "STEREO" -> IF right THEN r * t1 ELSE l * t0
                     [] mode = "MONO"   -> IF right THEN r * t0 ELSE l * t0
         IN  v + ExpectedSum(taps, hL, hR, mode, right, sample, tap + 1)

FitsSigned(v, w) == -Pow2(w - 1) <= v /\ v < Pow2(w - 1)

\* the taps as the tap memories hold them: tap t sits in word t \div slices
\* at slot slices - 1 - (t % slices)
StoredTaps(c) ==
    [t \in 1..c.tapcount |->
        LET w == (t - 1) \div c.slices
            i == c.slices - 1 - ((t - 1) % c.slices)
        IN  << AsSigned(Slot(c.taps1_memory[w], i), BitWidth),
               AsSigned(Slot(c.taps2_memory[w], i), BitWidth) >>]

\* the payload the engine's arithmetic gives for output pair k from the
\* stored taps and the input pairs 0..k alone
EnginePayload(c, right, k) ==
    Trunc(WrapSigned(ExpectedSum(StoredTaps(c), histL, histR, c.convolutionMode,
                                 right, k, 0), 2 * BitWidth)
              \div Pow2(BitWidth), BitWidth)

\* output token number i (1, 2, ...) belongs to pair (i-1) \div 2; odd
\* tokens are left, even tokens right
PairOf(i) == (i - 1) \div 2
IsRight(i) == (i % 2) = 0

BothCaptured == Built /\ dut.fsm = "IDLE" /\ dut.set1 = 1 /\ dut.set2 = 1
IdleAgain == Built /\ dut.fsm = "IDLE" /\ dut.set1 = 0 /\ dut.set2 = 0

\* the pair being collected is pair Len(outs) \div 2 (the pairs before it
\* have had both their tokens shown); it is complete when both its samples
\* have been transferred
PairComplete ==
    LET n == Len(outs) \div 2
    IN  Len(histL) = n + 1 /\ Len(histR) = n + 1

\* n is the ceiling of tapcount * samplerate / clockfrequency
IsCeil(n, a) ==
    /\ n * a.clockfrequency >= Len(a.taps) * a.samplerate
    /\ (n - 1) * a.clockfrequency < Len(a.taps) * a.samplerate

(***************************************************************************)
(* C1  With signal_out.ready high and pairs fed left then right, every     *)
(* emitted left and right payload differs by at most 2 from the reference  *)
(* value (S >> bitwidth) of its mode, S summed over the taps as given to   *)
(* the constructor, whenever S fits in 2*bitwidth signed bits.             *)
(***************************************************************************)
C1_WithinTwoOfReference ==
    Built =>
        \A i \in 1..Len(outs) :
            LET S == ExpectedSum(args.taps, histL, histR, cfg.convolutionMode,
                                 IsRight(i), PairOf(i), 0)
            IN  FitsSigned(S, 2 * BitWidth) =>
                    Abs(AsSigned(outs[i].payload, BitWidth)
                        - (S \div Pow2(BitWidth))) <= 2

(***************************************************************************)
(* C2  Two engines on the same taps and mode that use different slices     *)
(* values, fed the same input pairs, emit bit-identical payload sequences. *)
(***************************************************************************)
C2_SlicesAgree ==
    \A i \in 1..Min(Len(outs), Len(outs2)) : outs[i].payload = outs2[i].payload

(***************************************************************************)
(* C3  MONO with the single non-zero tap t0 at index 0: the k-th emitted   *)
(* payload of each channel equals (input[k] * t0) >> bitwidth exactly,     *)
(* whatever the earlier inputs were.                                       *)
(***************************************************************************)
C3_PureGain ==
    Built =>
        \A i \in 1..Len(outs) :
            LET x  == IF IsRight(i) THEN histR[PairOf(i) + 1]
                                    ELSE histL[PairOf(i) + 1]
                t0 == args.taps[1][1]
            IN  outs[i].payload = Trunc((x * t0) \div Pow2(BitWidth), BitWidth)

\* a third pair came out scaled by a negative t0 on two slices, after
\* non-zero earlier pairs
C3_Witness ==
    /\ Built
    /\ args.taps[1][1] < 0
    /\ cfg.slices = 2
    /\ Len(outs) = 6
    /\ outs[6].payload # 0
    /\ histL[1] # 0 /\ histR[2] # 0

(***************************************************************************)
(* C4  Under any pattern of signal_out.ready an output token shown with    *)
(* valid = 1 keeps valid and payload (and first/last) until a tick on      *)
(* which ready = 1, so no computed output sample is lost.                  *)
(***************************************************************************)
C4_HeldUntilReady ==
    [][(Built /\ dut.valid = 1 /\ out_ready = 0) =>
            /\ dut'.valid = 1
            /\ dut'.payload = dut.payload
            /\ dut'.first = dut.first
            /\ dut'.last = dut.last]_vars

\* the shape of a shown token and the count of tokens per pair
C5_TokenShape ==
    Built =>
        /\ dut.valid = 1 =>
              /\ dut.fsm = "OUTPUT"
              /\ dut.output_channels \in {1, 2}
              /\ dut.output_channels = 1 =>
                    /\ dut.payload = Trunc(dut.sumSignalL \div Pow2(BitWidth), BitWidth)
                    /\ dut.first = 1 /\ dut.last = 0
                    /\ Len(outs) % 2 = 1
              /\ dut.output_channels = 2 =>
                    /\ dut.payload = Trunc(dut.sumSignalR \div Pow2(BitWidth), BitWidth)
                    /\ dut.first = 0 /\ dut.last = 1
                    /\ Len(outs) % 2 = 0
        /\ IdleAgain =>
              /\ Len(histL) = Len(histR)
              /\ Len(outs) = 2 * Len(histL)

\* valid rises with the left token, the right token follows on the next
\* tick, and valid falls on the tick after it
C5_TwoConsecutive ==
    [][Built =>
          /\ (dut.valid = 0 /\ dut'.valid = 1) => dut'.first = 1
          /\ (dut.valid = 1 /\ dut.first = 1) => (dut'.valid = 1 /\ dut'.last = 1)
          /\ (dut.valid = 1 /\ dut.last = 1) => dut'.valid = 0]_vars

(***************************************************************************)
(* C5  With signal_out.ready high, per processed pair valid is high on     *)
(* exactly two consecutive ticks: first the left sum >> bitwidth with      *)
(* first = 1, last = 0, then the right sum >> bitwidth with first = 0,     *)
(* last = 1; valid is low on every other tick.                             *)
(***************************************************************************)
C5_TwoTokensPerPair == []C5_TokenShape /\ C5_TwoConsecutive

\* the right token of the second pair is on signal_out, the two sums differ
C5_Witness ==
    /\ Built
    /\ dut.valid = 1 /\ dut.last = 1
    /\ Len(outs) = 4
    /\ outs[3].payload # outs[4].payload

(***************************************************************************)
(* C6  Run to completion: once both channel samples are captured the       *)
(* engine leaves MAC, passes SUM and OUTPUT and (signal_out.ready being    *)
(* high) returns to IDLE ready for the next pair, for every configuration  *)
(* the constructor accepts.                                                *)
(***************************************************************************)
C6_RunToCompletion == BothCaptured ~> IdleAgain

\* signal_in.ready against the samples transferred so far
C7_ReadyOnlyWhenCollecting ==
    Built =>
        /\ dut.fsm \in {"MAC", "SUM", "OUTPUT"} => SignalInReady(dut) = 0
        /\ (dut.fsm = "IDLE" /\ PairComplete) => SignalInReady(dut) = 0
        /\ SignalInReady(dut) = 1 <=> (dut.fsm = "IDLE" /\ ~PairComplete)

\* a sample memory changes only on a tick its write port is enabled, and
\* the enables are raised by the FSM alone: in MAC, or in IDLE on the tick a
\* token is transferred
C7_MemoriesOwned ==
    [][Built =>
          /\ dut'.samples1_memory # dut.samples1_memory => dut.w1_en = 1
          /\ dut'.samples2_memory # dut.samples2_memory => dut.w2_en = 1
          /\ dut'.w1_en = 1 =>
                \/ dut.fsm = "MAC"
                \/ /\ dut.fsm = "IDLE" /\ signal_in.valid = 1
                   /\ signal_in.first = 1 /\ SignalInReady(dut) = 1
          /\ dut'.w2_en = 1 =>
                \/ dut.fsm = "MAC"
                \/ /\ dut.fsm = "IDLE" /\ signal_in.valid = 1
                   /\ signal_in.last = 1 /\ SignalInReady(dut) = 1]_vars

(***************************************************************************)
(* C7  signal_in.ready is 0 in MAC, SUM and OUTPUT and on the IDLE tick    *)
(* where both samples of the pair are captured; it is 1 exactly on IDLE    *)
(* ticks where a sample of the current pair is still missing; the sample   *)
(* memories are written only by the engine's own FSM.                      *)
(***************************************************************************)
C7_RefusesWhileBusy == []C7_ReadyOnlyWhenCollecting /\ C7_MemoriesOwned

\* the bench holds the next pair's token on signal_in while the engine sits
\* in IDLE with the second pair complete (ready low)
C7_Witness ==
    /\ Built
    /\ signal_in.valid = 1
    /\ dut.fsm = "IDLE" /\ PairComplete
    /\ Len(outs) = 2

(***************************************************************************)
(* C8  Real-time budget: with signal_out.ready high, the ticks from the    *)
(* tick the left sample of a pair is accepted until the engine is again in *)
(* IDLE with signal_in.ready = 1 number at most clockfrequency/samplerate. *)
(***************************************************************************)
C8_WithinBudget ==
    (IdleAgain /\ elapsed > 0) =>
        elapsed * args.samplerate <= args.clockfrequency

(***************************************************************************)
(* C9  No look-ahead and ordering: whatever the arrival timing, the order  *)
(* of the two channels inside a pair and the later inputs are, output pair *)
(* k is one fixed function of the mode, the stored taps and input pairs    *)
(* 0..k; it is shown after input pair k is captured and before input pair  *)
(* k+1 is accepted, one output pair per input pair.                        *)
(***************************************************************************)
C9_NoLookAhead ==
    Built =>
        /\ Len(outs) <= 2 * Min(Len(histL), Len(histR))
        /\ Max(Len(histL), Len(histR)) <= (Len(outs) \div 2) + 1
        /\ \A i \in 1..Len(outs) :
              /\ outs[i].payload = EnginePayload(cfg, IsRight(i), PairOf(i))
              /\ outs[i].first = (IF IsRight(i) THEN 0 ELSE 1)
              /\ outs[i].last = (IF IsRight(i) THEN 1 ELSE 0)

\* the third output pair is out on an engine with two slices, its left
\* payload differing from the first pair's
C9_Witness ==
    /\ Built
    /\ cfg.slices = 2
    /\ Len(outs) = 6
    /\ histL[1] # histL[3]
    /\ outs[5].payload # outs[1].payload
    /\ dut.fsm = "IDLE"

(***************************************************************************)
(* C10 Construction computes slices = ceil(tapcount / (clockfrequency /    *)
(* samplerate)) and samples_per_slice = tapcount // slices, is rejected    *)
(* exactly when tapcount % slices # 0, and every constructed engine has    *)
(* slices * samples_per_slice = tapcount.                                  *)
(***************************************************************************)
C10_Construction ==
    cfg.status # "new" =>
        /\ cfg.tapcount = Len(args.taps)
        /\ IsCeil(cfg.slices, args)
        /\ cfg.samples_per_slice = cfg.tapcount \div cfg.slices
        /\ cfg.status = "rejected" <=> (cfg.tapcount % cfg.slices # 0)
        /\ cfg.status = "rejected" => dut = NoDut
        /\ cfg.status = "ok" =>
              /\ cfg.slices * cfg.samples_per_slice = cfg.tapcount
              /\ dut # NoDut

\* a rejected construction: 5 taps do not spread over 2 slices
C10_Witness ==
    /\ cfg.status = "rejected"
    /\ cfg.tapcount = 5
    /\ cfg.slices = 2

(***************************************************************************)
(* FixedPointFIRFilter (src/amlib/dsp/fixedpointfirfilter.py).             *)
(*                                                                         *)
(* fir holds the fixed-point taps, the registers of elaborate() and the    *)
(* values the bench drives on enable_in / signal_in during the tick;       *)
(* firBench holds what the bench has fed so far.  The taps are an input of *)
(* the model: the source obtains them from scipy's filter design and       *)
(* converts them with int(x * 2**fraction_width).                          *)
(***************************************************************************)
\* bitwidth and fraction_width arguments (18 and 18 in the source's default)
FirBitWidth == 3
FirFractionWidth == 3
\* number of samples the bench lets the filter accept before it stops
MaxFirAccepted == 4

\* width = self.bitwidth + self.fraction_width
FirWidth == FirBitWidth + FirFractionWidth

FirMinVal == -Pow2(FirBitWidth - 1)
FirMaxVal == Pow2(FirBitWidth - 1) - 1

\* v >> self.fraction_width on a signed value: floor division
FirShift(v) == v \div Pow2(FirFractionWidth)

\* arr[i] of an amaranth Array: an index past the end selects the last element
ArrayAt(arr, i) == arr[(IF i < Len(arr) THEN i ELSE Len(arr) - 1) + 1]

\* mutant: the taps applied in reverse order
FirTap_Reversed(taps, i) == WrapSigned(taps[Len(taps) - i], FirWidth)

\* taps[i] = Const(self.taps[i], signed(width))
FirTap(taps, i) == WrapSigned(taps[i + 1], FirWidth)

\* sum([((x[i] * taps[i]) >> self.fraction_width) for i in range(n)]),
\* the terms from index i on
RECURSIVE FirSum(_, _, _)
FirSum(x, taps, i) ==
    IF i >= Len(taps) THEN 0
    ELSE FirShift(x[i + 1] * FirTap(taps, i)) + FirSum(x, taps, i + 1)

\* signal_out during a tick: the register written in OUTPUT (mac_loop), or
\* the combinational sum assigned to the signed(bitwidth) signal
FirSignalOut(f) ==
    IF f.mac_loop THEN f.signal_out
    ELSE WrapSigned(FirSum(f.x, f.taps, 0), FirBitWidth)

\* mutant: the newest sample is dropped instead of the oldest
FirDelayLine_DropsNewest(x, s) == <<s>> \o Tail(x)

\* x[i + 1].eq(x[i]) for i in range(n - 1); x[0].eq(self.signal_in)
FirDelayLine(x, s) == <<s>> \o SubSeq(x, 1, Len(x) - 1)

\* ix = Signal(range(n + 1))
FirIxWidth(f) == bits_for(Len(f.taps))

\* mutant: the MAC loop ends one operand early
FirMacDone_OneEarly(f) == f.ix >= Len(f.taps) - 1

\* with m.If(ix == n)
FirMacDone(f) == f.ix = Len(f.taps)

\* State IDLE
FirIdleState(f) ==
    IF f.enable_in = 1
    THEN [f EXCEPT !.ix = Trunc(1, FirIxWidth(f)),
                   !.a = WrapSigned(f.x[1], FirBitWidth),
                   !.b = WrapSigned(FirTap(f.taps, 0), FirBitWidth),
                   !.madd = 0,
                   !.fsm = "MAC"]
    ELSE f

\* State MAC
FirMacState(f) ==
    LET acc == [f EXCEPT !.madd = WrapSigned(f.madd + FirShift(f.a * f.b),
                                             FirBitWidth)]
    IN  IF FirMacDone(f)
        THEN [acc EXCEPT !.fsm = "OUTPUT"]
        ELSE [acc EXCEPT
                !.a = WrapSigned(ArrayAt(f.x, f.ix), FirBitWidth),
                !.b = WrapSigned(
                        ArrayAt([i \in 1..Len(f.taps) |-> FirTap(f.taps, i - 1)],
                                f.ix),
                        FirBitWidth),
                !.ix = Trunc(f.ix + 1, FirIxWidth(f))]

\* State OUTPUT
FirOutputState(f) == [f EXCEPT !.signal_out = f.madd, !.fsm = "IDLE"]

\* one tick of elaborate(): the FSM (mac_loop only), then the delay line
FirStep(f) ==
    LET g == IF ~f.mac_loop THEN f
             ELSE CASE f.fsm = "IDLE"   -> FirIdleState(f)
                    [] f.fsm = "MAC"    -> FirMacState(f)
                    [] f.fsm = "OUTPUT" -> FirOutputState(f)
    IN  [g EXCEPT !.x = IF f.enable_in = 1
                        THEN FirDelayLine(f.x, f.signal_in)
                        ELSE f.x]

\* the filter after reset, with the inputs of the first tick
FirReset(taps, mac_loop, enable, sample) ==
    [kind |-> "fir", taps |-> taps, mac_loop |-> mac_loop,
     x |-> [i \in 1..Len(taps) |-> 0],
     fsm |-> "IDLE", ix |-> 0, madd |-> 0, a |-> 0, b |-> 0, signal_out |-> 0,
     enable_in |-> enable, signal_in |-> sample]

(***************************************************************************)
(* The FIR bench.  discipline "free": any enable_in, any sample, until     *)
(* MaxFirAccepted samples were accepted.  discipline "impulse": enable_in  *)
(* held high, one non-zero sample at a tick of the bench's choice, zero    *)
(* samples before and after (test_fir's single pulses).                    *)
(***************************************************************************)
FirSamples == {FirMinVal, -1, 0, 1, FirMaxVal}

\* (i+1)-th most recent of the first c accepted samples, 0 before the first
PastSample(acc, c, i) == IF c - i >= 1 THEN acc[c - i] ELSE 0

\* the inputs the bench may drive on the next tick
FirInputs(b) ==
    IF b.discipline = "impulse"
    THEN {<<1, s>> : s \in (IF b.since = 0 THEN FirSamples ELSE {0})}
    ELSE IF Len(b.accepted) >= MaxFirAccepted
         THEN {<<0, 0>>}
         ELSE {<<0, 0>>} \cup {<<1, s>> : s \in FirSamples \ {0, 1}}

FirBenchReset(discipline) ==
    [kind |-> "fir", discipline |-> discipline, accepted |-> <<>>,
     impulse |-> 0, since |-> 0,
     k |-> 0, run |-> <<>>, fresh |-> FALSE, expected |-> 0]

\* the value a serial MAC run accumulates: operand i is read on the i-th tick
\* of the run, when the first run[i+1] accepted samples are in the delay line
RECURSIVE FirRunSum(_, _, _, _)
FirRunSum(acc, run, taps, i) ==
    IF i >= Len(taps) THEN 0
    ELSE FirShift(PastSample(acc, run[i + 1], i)
                  * WrapSigned(taps[i + 1], FirBitWidth))
         + FirRunSum(acc, run, taps, i + 1)

\* bookkeeping of one tick: f is the filter during the tick
FirObserve(f, b) ==
    LET n == Len(f.taps)
        took == f.enable_in = 1
        starts == f.mac_loop /\ f.fsm = "IDLE" /\ took
        run1 == IF starts THEN <<Len(b.accepted)>>
                ELSE IF b.k >= 1 /\ b.k < n THEN Append(b.run, Len(b.accepted))
                ELSE b.run
    IN  [b EXCEPT
           !.accepted = IF took /\ Len(b.accepted) < MaxFirAccepted
                        THEN Append(b.accepted, f.signal_in)
                        ELSE b.accepted,
           !.impulse = IF b.since = 0 /\ took /\ f.signal_in # 0
                       THEN f.signal_in ELSE b.impulse,
           !.since = IF b.since = 0
                     THEN (IF took /\ f.signal_in # 0 THEN 1 ELSE 0)
                     ELSE (IF b.since < n + 2 THEN b.since + 1 ELSE b.since),
           !.k = IF starts THEN 1
                 ELSE IF b.k >= 1 /\ b.k <= n THEN b.k + 1 ELSE 0,
           !.run = run1,
           !.fresh = (b.k = n + 1),
           !.expected = IF b.k = n + 1
                        THEN WrapSigned(FirRunSum(b.accepted, b.run, f.taps, 0),
                                        FirBitWidth)
                        ELSE b.expected]

FirTick ==
    /\ fir.kind = "fir"
    /\ firBench' = FirObserve(fir, firBench)
    /\ \E inp \in FirInputs(firBench') :
         fir' = [FirStep(fir) EXCEPT !.enable_in = inp[1], !.signal_in = inp[2]]
    /\ UNCHANGED <<convVars, iir, iirBench, cic, cicBench, hb, hbBench, unitVars>>

ConvAbsent ==
    /\ args = <<>> /\ cfg = NotConstructed /\ dut = NoDut
    /\ signal_in = NoToken /\ out_ready = 0 /\ env = Absent
    /\ histL = <<>> /\ histR = <<>> /\ outs = <<>> /\ elapsed = 0
    /\ args2 = <<>> /\ cfg2 = NotConstructed /\ dut2 = NoDut /\ outs2 = <<>>

\* fixed-point taps: coefficients between -1 and 1 scaled by 2^fraction_width
FirTaps1 == <<Pow2(FirFractionWidth)>>
FirTaps2 == <<3, -2>>
FirTaps3 == <<5, 7, -3>>
FirTapsHigh == <<Pow2(FirFractionWidth), 7, 6>>
FirTapSets == {FirTaps1, FirTaps2, FirTaps3, FirTapsHigh}

InitFirWith(tapsets, modes, discipline) ==
    /\ ConvAbsent
    /\ firBench = FirBenchReset(discipline)
    /\ \E taps \in tapsets, mac_loop \in modes, inp \in FirInputs(firBench) :
         fir = FirReset(taps, mac_loop, inp[1], inp[2])
    /\ iir = Absent /\ iirBench = Absent
    /\ cic = Absent /\ cicBench = Absent
    /\ hb = Absent /\ hbBench = Absent
    /\ UnitsAbsent

\* both modes, any enable pattern
InitFir == InitFirWith(FirTapSets, BOOLEAN, "free")
NextFir == FirTick
SpecFir == InitFir /\ [][NextFir]_vars

\* parallel mode, enable_in held high, one impulse
InitFirImpulse == InitFirWith(FirTapSets, {FALSE}, "impulse")
SpecFirImpulse == InitFirImpulse /\ [][NextFir]_vars

(***************************************************************************)
(* Properties of FixedPointFIRFilter.                                      *)
(***************************************************************************)
IsFir == fir.kind = "fir"
FirN == Len(fir.taps)

\* clamp to the signed(bitwidth) range
FirSaturate(v) ==
    IF v > FirMaxVal THEN FirMaxVal ELSE IF v < FirMinVal THEN FirMinVal ELSE v

(***************************************************************************)
(* C11  Parallel mode, enable_in held high, zeroed delay line: after one   *)
(* sample of amplitude A followed by zero samples, signal_out on the j-th  *)
(* tick after the impulse was accepted (j = 1..n) is                       *)
(* (A * taps_fp[j-1]) >> fraction_width, and 0 on every later tick.        *)
(***************************************************************************)
C11_ImpulseResponse ==
    (IsFir /\ firBench.since >= 1) =>
        FirSignalOut(fir) =
            IF firBench.since <= FirN
            THEN FirShift(firBench.impulse * fir.taps[firBench.since])
            ELSE 0

C11_Witness ==
    /\ IsFir /\ ~fir.mac_loop
    /\ FirN = 3
    /\ firBench.since = 3
    /\ firBench.impulse = FirMinVal
    /\ FirSignalOut(fir) > 0

(***************************************************************************)
(* C12  Parallel mode: on every tick signal_out is the saturating sum of   *)
(* (x[i] * tap[i]) >> fraction_width over the delay line: a sum outside    *)
(* the signed bitwidth range is clamped to the nearest representable value *)
(* and not wrapped modulo 2^bitwidth.                                      *)
(***************************************************************************)
C12_SaturatingSum ==
    (IsFir /\ ~fir.mac_loop) =>
        FirSignalOut(fir) = FirSaturate(FirSum(fir.x, fir.taps, 0))

\* one tick of the delay line as the claim states it
C13_ShiftStep ==
    IsFir =>
        IF fir.enable_in = 1
        THEN /\ fir'.x[1] = fir.signal_in
             /\ \A i \in 1..(FirN - 1) : fir'.x[i + 1] = fir.x[i]
        ELSE fir'.x = fir.x

\* x[i] is the (i+1)-th most recently accepted sample
C13_HoldsHistory ==
    IsFir =>
        \A i \in 0..(FirN - 1) :
            fir.x[i + 1] = PastSample(firBench.accepted,
                                      Len(firBench.accepted), i)

(***************************************************************************)
(* C13  Delay line, parallel and serial-MAC mode: a tick with              *)
(* enable_in = 1 gives x[0] = signal_in and x[i+1] = previous x[i] (the    *)
(* oldest sample is discarded), a tick with enable_in = 0 leaves x         *)
(* unchanged; hence x[i] always is the (i+1)-th most recently accepted     *)
(* sample.                                                                 *)
(***************************************************************************)
C13_DelayLine == [][C13_ShiftStep]_vars /\ []C13_HoldsHistory

C13_Witness ==
    /\ IsFir /\ fir.mac_loop
    /\ FirN = 3
    /\ Len(firBench.accepted) = MaxFirAccepted
    /\ fir.x[1] # fir.x[2] /\ fir.x[2] # fir.x[3]
    /\ fir.x[3] # firBench.accepted[1]
    /\ fir.fsm = "MAC"

\* where the FSM is on each tick of a run started on an IDLE tick
C14_Schedule ==
    (IsFir /\ fir.mac_loop) =>
        /\ (firBench.k >= 1 /\ firBench.k <= FirN) => fir.fsm = "MAC"
        /\ firBench.k = FirN + 1 => fir.fsm = "OUTPUT"
        /\ firBench.k = 0 => fir.fsm = "IDLE"
        /\ firBench.fresh => FirSignalOut(fir) = firBench.expected

\* one accumulation per MAC tick; signal_out changes only out of OUTPUT
C14_Steps ==
    (IsFir /\ fir.mac_loop) =>
        /\ fir.fsm = "MAC" =>
              fir'.madd = WrapSigned(fir.madd + FirShift(fir.a * fir.b),
                                     FirBitWidth)
        /\ FirSignalOut(fir') # FirSignalOut(fir) => firBench.k = FirN + 1

(***************************************************************************)
(* C14  Serial-MAC mode with n taps: enable_in high on an IDLE tick t puts *)
(* the FSM in MAC on exactly the ticks t+1..t+n (one accumulation          *)
(* madd += (a*b) >> fraction_width per tick), in OUTPUT on t+n+1 and in    *)
(* IDLE on t+n+2, where signal_out first holds the accumulated value;      *)
(* signal_out changes at no other time.                                    *)
(***************************************************************************)
C14_SerialSchedule == []C14_Schedule /\ [][C14_Steps]_vars

C14_Witness ==
    /\ IsFir /\ fir.mac_loop
    /\ FirN = 3
    /\ firBench.fresh
    /\ fir.fsm = "IDLE"
    /\ fir.signal_out # 0
    /\ firBench.run[3] > firBench.run[1]

(***************************************************************************)
(* C15  Serial-MAC mode refuses input while busy: on every tick with the   *)
(* FSM in MAC or OUTPUT the delay line x is left unchanged even when       *)
(* enable_in is high.                                                      *)
(***************************************************************************)
C15_RefusesWhileBusy ==
    [][(IsFir /\ fir.mac_loop /\ fir.fsm \in {"MAC", "OUTPUT"})
          => fir'.x = fir.x]_vars

(***************************************************************************)
(* FixedPointIIRFilter (src/an_amaranth_lib/dsp/fixedpointiirfilter.py).   *)
(*                                                                         *)
(* iir holds the fixed-point coefficients b and a (the source obtains them *)
(* from scipy's cheby1 design), the registers x and y and the inputs       *)
(* driven during the tick; iirBench holds the accepted samples and the     *)
(* value signal_out had on each accepting tick.                            *)
(***************************************************************************)
\* bitwidth and fraction_width arguments (18 and 18 in the source's default)
IirBitWidth == 3
IirFractionWidth == 3
\* number of samples the bench lets the filter accept before it stops
MaxIirAccepted == 4

\* width = self.bitwidth + self.fraction_width
IirWidth == IirBitWidth + IirFractionWidth

IirMinVal == -Pow2(IirBitWidth - 1)
IirMaxVal == Pow2(IirBitWidth - 1) - 1

\* v >> self.fraction_width on a signed value: floor division
IirShift(v) == v \div Pow2(IirFractionWidth)

\* b[i] = Const(self.b[i], signed(width))
IirB(f, i) == WrapSigned(f.b[i + 1], IirWidth)

\* mutant: the leading recursive coefficient is kept
IirA_KeepsLeading(f, i) == WrapSigned(f.a[i + 1], IirWidth)

\* a[i] = Const(self.a[1:][i], signed(width))
IirA(f, i) == WrapSigned(f.a[i + 2], IirWidth)

\* sum([((x[i] * b[i]) >> self.fraction_width) for i in range(n)]), from i on
RECURSIVE IirForward(_, _)
IirForward(f, i) ==
    IF i >= Len(f.a) THEN 0
    ELSE IirShift(f.x[i + 1] * IirB(f, i)) + IirForward(f, i + 1)

\* sum([((y[i] * a[i]) >> self.fraction_width) for i in range(n - 1)])
RECURSIVE IirFeedback(_, _)
IirFeedback(f, i) ==
    IF i >= Len(f.a) - 1 THEN 0
    ELSE IirShift(f.y[i + 1] * IirA(f, i)) + IirFeedback(f, i + 1)

\* the combinational signal_out, a signed(bitwidth) signal
IirSignalOut(f) == WrapSigned(IirForward(f, 0) - IirFeedback(f, 0), IirBitWidth)

\* one tick of elaborate()
IirStep(f) ==
    IF f.enable_in = 1
    THEN [f EXCEPT !.x = <<f.signal_in>> \o SubSeq(f.x, 1, Len(f.x) - 1),
                   !.y = <<IirSignalOut(f)>> \o SubSeq(f.y, 1, Len(f.y) - 1)]
    ELSE f

IirReset(b, a, enable, sample) ==
    [kind |-> "iir", b |-> b, a |-> a,
     x |-> [i \in 1..Len(a) |-> 0], y |-> [i \in 1..(Len(a) - 1) |-> 0],
     enable_in |-> enable, signal_in |-> sample]

\* the bench: any enable_in, any sample, until MaxIirAccepted were accepted
IirSamples == {IirMinVal, -1, IirMaxVal}

IirInputs(bn) ==
    IF Len(bn.accepted) >= MaxIirAccepted
    THEN {<<0, 0>>}
    ELSE {<<0, 0>>} \cup {<<1, s>> : s \in IirSamples}

IirBenchReset == [kind |-> "iir", accepted |-> <<>>, produced |-> <<>>]

IirObserve(f, bn) ==
    IF f.enable_in = 1
    THEN [bn EXCEPT !.accepted = Append(bn.accepted, f.signal_in),
                    !.produced = Append(bn.produced, IirSignalOut(f))]
    ELSE bn

IirTick ==
    /\ iir.kind = "iir"
    /\ iirBench' = IirObserve(iir, iirBench)
    /\ \E inp \in IirInputs(iirBench') :
         iir' = [IirStep(iir) EXCEPT !.enable_in = inp[1], !.signal_in = inp[2]]
    /\ UNCHANGED <<convVars, fir, firBench, cic, cicBench, hb, hbBench, unitVars>>

\* fixed-point coefficient sets <<b, a>> with len(b) = len(a) and a[0] = 1.0
IirCoefficients ==
    {<< <<2, 3>>, <<Pow2(IirFractionWidth), -3>> >>,
     << <<1, 2, 1>>, <<Pow2(IirFractionWidth), -5, 2>> >>,
     << <<3, -6, 3>>, <<Pow2(IirFractionWidth), 7, -4>> >>}

InitIir ==
    /\ ConvAbsent
    /\ iirBench = IirBenchReset
    /\ \E c \in IirCoefficients, inp \in IirInputs(iirBench) :
         iir = IirReset(c[1], c[2], inp[1], inp[2])
    /\ fir = Absent /\ firBench = Absent
    /\ cic = Absent /\ cicBench = Absent
    /\ hb = Absent /\ hbBench = Absent
    /\ UnitsAbsent

NextIir == IirTick
SpecIir == InitIir /\ [][NextIir]_vars

(***************************************************************************)
(* Properties of FixedPointIIRFilter.                                      *)
(***************************************************************************)
IsIir == iir.kind = "iir"
IirN == Len(iir.a)

\* the claimed output, from the accepted samples and the earlier outputs
RECURSIVE IirExpectedForward(_, _, _)
IirExpectedForward(acc, b, i) ==
    IF i >= Len(b) THEN 0
    ELSE IirShift(PastSample(acc, Len(acc), i) * b[i + 1])
         + IirExpectedForward(acc, b, i + 1)

RECURSIVE IirExpectedFeedback(_, _, _)
IirExpectedFeedback(out, a, i) ==
    IF i >= Len(a) - 1 THEN 0
    ELSE IirShift(PastSample(out, Len(out), i) * a[i + 2])
         + IirExpectedFeedback(out, a, i + 1)

\* the sums of the claim over the histories, as unbounded integers
IirExpected ==
    IirExpectedForward(iirBench.accepted, iir.b, 0)
    - IirExpectedFeedback(iirBench.produced, iir.a, 0)

\* y[i] is the output produced at the (i+1)-th most recent accepted sample
C16_History ==
    IsIir =>
        \A i \in 0..(IirN - 2) :
            iir.y[i + 1] = PastSample(iirBench.produced,
                                      Len(iirBench.produced), i)

C16_Output ==
    IsIir => IirSignalOut(iir) = WrapSigned(IirExpected, IirBitWidth)

C16_Shift ==
    IsIir =>
        IF iir.enable_in = 1
        THEN /\ iir'.x[1] = iir.signal_in
             /\ \A i \in 1..(IirN - 1) : iir'.x[i + 1] = iir.x[i]
             /\ iir'.y[1] = IirSignalOut(iir)
             /\ \A i \in 1..(IirN - 2) : iir'.y[i + 1] = iir.y[i]
        ELSE iir'.x = iir.x /\ iir'.y = iir.y

(***************************************************************************)
(* C16 as stated: on every tick signal_out equals the sum over i < n of    *)
(* (x[i]*b[i]) >> fraction_width minus the sum over i < n-1 of             *)
(* (y[i]*a[i+1]) >> fraction_width.  Fails when that value lies outside    *)
(* the signed bitwidth range of signal_out.                                *)
(***************************************************************************)
C16_ExactSum == IsIir => IirSignalOut(iir) = IirExpected

(***************************************************************************)
(* C16 amended: signal_out is that difference of sums wrapped to the       *)
(* signed bitwidth-bit signal (modulo 2^bitwidth), the leading a           *)
(* coefficient unused; a tick with enable_in = 1 shifts signal_in into x   *)
(* and that tick's signal_out into y, a tick with enable_in = 0 changes    *)
(* neither; hence y[i] is the output produced at the (i+1)-th most recent  *)
(* accepted sample and never the current output.                           *)
(***************************************************************************)
C16_DirectForm == []C16_Output /\ []C16_History /\ [][C16_Shift]_vars

C16_Witness ==
    /\ IsIir
    /\ IirN = 3
    /\ Len(iirBench.accepted) >= 3
    /\ iir.y[1] # 0 /\ iir.y[2] # 0 /\ iir.y[1] # iir.y[2]
    /\ IirExpected > IirMaxVal
    /\ IirSignalOut(iir) # iir.y[1]

(***************************************************************************)
(* FixedPointCICFilter (src/amlib/dsp/fixedpointcicfilter.py).             *)
(*                                                                         *)
(* cic holds the parameters, the registers of elaborate() and the inputs   *)
(* driven during the tick; cicBench counts the strobes and runs the same   *)
(* integrator-comb recurrence on unbounded integers.                       *)
(***************************************************************************)
\* bitwidth argument (18 in the source's default)
CicBitWidth == 2
\* largest filter_stage and decimation arguments
MaxCicStage == 2
MaxCicDecimation == 3
\* number of input strobes the bench gives before it stops
MaxCicStrobes == 7

\* ceil(log2(v)) for v >= 1: the least k with 2^k >= v
RECURSIVE CeilLog2(_)
CeilLog2(v) == IF v <= 1 THEN 0 ELSE 1 + CeilLog2((v + 1) \div 2)

RECURSIVE IntPow(_, _)
IntPow(b, e) == IF e <= 0 THEN 1 ELSE b * IntPow(b, e - 1)

\* self.delay_width = max(1 + ceil(filter_stage*log2(decimation)), bitwidth);
\* ceil(filter_stage * log2(decimation)) = ceil(log2(decimation^filter_stage))
CicDelayWidth(stage, decimation, bitwidth) ==
    LET w == 1 + CeilLog2(IntPow(decimation, stage))
    IN  IF w > bitwidth THEN w ELSE bitwidth

\* decimate_counter = Signal(range(0, self.decimation))
CicCounterWidth(c) == bits_for(c.decimation - 1)

\* the integrators after a tick with strobe_in = 1; w = 0 keeps all bits
CicWrap(v, w) == IF w = 0 THEN v ELSE WrapSigned(v, w)

CicIntegrate(x, s, w) ==
    [i \in 1..Len(x) |->
        IF i = 1 THEN CicWrap(s + x[1], w) ELSE CicWrap(x[i - 1] + x[i], w)]

\* the combs after a tick with comb_edge = 1
CicComb(x, y, dy, w) ==
    [i \in 1..Len(y) |->
        IF i = 1 THEN CicWrap(x[Len(x)] - dy[1], w)
        ELSE CicWrap(y[i - 1] - dy[i], w)]

\* mutant: each dy takes its own stage's comb value
CicCombDelay_Own(x, y) ==
    [i \in 1..Len(y) |-> IF i = 1 THEN x[Len(x)] ELSE y[i]]

CicCombDelay(x, y) ==
    [i \in 1..Len(y) |-> IF i = 1 THEN x[Len(x)] ELSE y[i - 1]]

\* with m.Else(): ... comb_edge.eq(1)
CicWraps(c) == c.strobe_in = 1 /\ ~(c.decimate_counter < c.decimation - 1)

\* comb_edge after the tick: set on a counter wrap, and cleared by the later
\* assignment comb_edge.eq(0) whenever comb_edge is high
CicCombEdge(c) ==
    IF c.comb_edge = 1 THEN 0 ELSE IF CicWraps(c) THEN 1 ELSE c.comb_edge

\* one tick of elaborate()
CicStep(c) ==
    [c EXCEPT
       !.strobe_out = c.comb_edge,
       !.x = IF c.strobe_in = 1
             THEN CicIntegrate(c.x, c.signal_in, c.width) ELSE c.x,
       !.decimate_counter =
             IF c.strobe_in = 1
             THEN (IF c.decimate_counter < c.decimation - 1
                   THEN Trunc(c.decimate_counter + 1, CicCounterWidth(c))
                   ELSE 0)
             ELSE c.decimate_counter,
       !.comb_edge = CicCombEdge(c),
       !.y = IF c.comb_edge = 1 THEN CicComb(c.x, c.y, c.dy, c.width) ELSE c.y,
       !.dy = IF c.comb_edge = 1 THEN CicCombDelay(c.x, c.y) ELSE c.dy,
       !.signal_out =
             IF c.comb_edge = 1
             THEN WrapSigned(c.y[Len(c.y)] \div Pow2(c.width - c.bitwidth),
                             c.bitwidth)
             ELSE c.signal_out]

CicReset(stage, decimation, bitwidth, strobe, sample) ==
    [kind |-> "cic", stage |-> stage, decimation |-> decimation,
     bitwidth |-> bitwidth,
     width |-> CicDelayWidth(stage, decimation, bitwidth),
     x |-> [i \in 1..stage |-> 0], y |-> [i \in 1..stage |-> 0],
     dy |-> [i \in 1..stage |-> 0],
     comb_edge |-> 0, strobe_out |-> 0, decimate_counter |-> 0,
     signal_out |-> 0,
     strobe_in |-> strobe, signal_in |-> sample]

\* the bench: any strobe_in pattern; samples +1 / -1 ("unit") or any of the
\* listed signed values ("any"); it stops after MaxCicStrobes strobes
CicSamples(data) ==
    IF data = "unit" THEN {1, -1}
    ELSE {1, -1, -Pow2(CicBitWidth - 1), Pow2(CicBitWidth - 1) - 1}

CicInputs(b) ==
    IF b.strobes_in >= MaxCicStrobes
    THEN {<<0, 1>>}
    ELSE {<<0, 1>>} \cup {<<1, s>> : s \in CicSamples(b.data)}

CicBenchReset(data) ==
    [kind |-> "cic", data |-> data, strobes_in |-> 0, strobes_out |-> 0,
     x |-> <<>>, y |-> <<>>, dy |-> <<>>]

\* bookkeeping of one tick: c is the filter during the tick, c1 after it
CicObserve(c, c1, b) ==
    [b EXCEPT
       !.strobes_in = b.strobes_in + c.strobe_in,
       !.strobes_out = b.strobes_out + c1.strobe_out,
       !.x = IF c.strobe_in = 1 THEN CicIntegrate(b.x, c.signal_in, 0) ELSE b.x,
       !.y = IF c.comb_edge = 1 THEN CicComb(b.x, b.y, b.dy, 0) ELSE b.y,
       !.dy = IF c.comb_edge = 1 THEN CicCombDelay(b.x, b.y) ELSE b.dy]

CicTick ==
    /\ cic.kind = "cic"
    /\ cicBench' = CicObserve(cic, CicStep(cic), cicBench)
    /\ \E inp \in CicInputs(cicBench') :
         cic' = [CicStep(cic) EXCEPT !.strobe_in = inp[1], !.signal_in = inp[2]]
    /\ UNCHANGED <<convVars, fir, firBench, iir, iirBench, hb, hbBench, unitVars>>

InitCicWith(data) ==
    /\ ConvAbsent
    /\ \E stage \in 1..MaxCicStage, decimation \in 1..MaxCicDecimation :
         /\ cicBench = [CicBenchReset(data) EXCEPT
                          !.x = [i \in 1..stage |-> 0],
                          !.y = [i \in 1..stage |-> 0],
                          !.dy = [i \in 1..stage |-> 0]]
         /\ \E inp \in CicInputs(cicBench) :
              cic = CicReset(stage, decimation, CicBitWidth, inp[1], inp[2])
    /\ fir = Absent /\ firBench = Absent
    /\ iir = Absent /\ iirBench = Absent
    /\ hb = Absent /\ hbBench = Absent
    /\ UnitsAbsent

NextCic == CicTick

\* any input data
InitCic == InitCicWith("any")
SpecCic == InitCic /\ [][NextCic]_vars

\* signal_in restricted to +1 / -1
InitCicUnit == InitCicWith("unit")
SpecCicUnit == InitCicUnit /\ [][NextCic]_vars

(***************************************************************************)
(* Properties of FixedPointCICFilter.                                      *)
(***************************************************************************)
IsCic == cic.kind = "cic"

(***************************************************************************)
(* C17  Strobe count: for every decimation >= 1, every input data sequence *)
(* and every pattern of strobe_in (back-to-back strobes included), after N *)
(* input strobes and once the pipeline has drained (no comb edge pending)  *)
(* the number of ticks with strobe_out high is floor(N / decimation).      *)
(***************************************************************************)
C17_StrobeCount ==
    (IsCic /\ cic.comb_edge = 0) =>
        cicBench.strobes_out = cicBench.strobes_in \div cic.decimation

(***************************************************************************)
(* C18  Overflow freedom: with signal_in restricted to +1 / -1 and         *)
(* register width max(1 + ceil(filter_stage * log2(decimation)), bitwidth) *)
(* the final comb value y[n-1] always equals the value the same            *)
(* integrator-comb recurrence yields on unbounded integers.                *)
(***************************************************************************)
C18_NoOverflow ==
    IsCic => cic.y[cic.stage] = cicBench.y[cic.stage]

(***************************************************************************)
(* FixedPointHBFilter (src/amlib/dsp/fixedpointhbfilter.py).               *)
(*                                                                         *)
(* hb holds the constructor arguments before construction and afterwards   *)
(* the fixed-point taps, the registers of elaborate() and the inputs       *)
(* driven during the tick; hbBench counts the strobes.  The taps are the   *)
(* source's remez design, here a symmetric half-band shape: 0.5 at the     *)
(* centre, zero at the other odd indices.                                  *)
(***************************************************************************)
\* bitwidth and fraction_width arguments (18 and 18 in the source's default)
HbBitWidth == 3
HbFractionWidth == 3
\* largest filter_order argument
MaxHbOrder == 8
\* number of input strobes the bench gives before it stops
MaxHbStrobes == 5

\* width = self.bitwidth + self.fraction_width
HbWidth == HbBitWidth + HbFractionWidth

\* v >> k on a signed value: floor division
HbShift(v, k) == v \div Pow2(k)

\* mutant: every odd order is supported
HbOrderSupported_AnyOdd(filter_order) == filter_order % 2 = 1

\* assert (filter_order & 1) and (filter_order//2 & 1)
HbOrderSupported(filter_order) ==
    filter_order % 2 = 1 /\ (filter_order \div 2) % 2 = 1

\* self.taps for n = filter_order taps
HbTaps(n) ==
    [j \in 1..n |->
        LET i == j - 1
            d == IF i > n \div 2 THEN i - n \div 2 ELSE n \div 2 - i
        IN  IF d = 0 THEN Pow2(HbFractionWidth - 1)
            ELSE IF i % 2 = 1 THEN 0
            ELSE IF d = 1 THEN 2 ELSE IF d = 3 THEN -1 ELSE 1]

\* taps[i] = Const(self.taps[i], signed(width))
HbTap(h, i) == WrapSigned(ArrayAt(h.taps, i), HbWidth)

\* x[i] of the Array x
HbX(h, i) == ArrayAt(h.x, i)

\* the parallel sum: terms i .. n//4, started from x[n//2] >> 1
RECURSIVE HbSum(_, _)
HbSum(h, i) ==
    LET n == Len(h.taps)
    IN  IF i > n \div 4 THEN HbShift(HbX(h, n \div 2), 1)
        ELSE HbShift((HbX(h, 2 * i) + HbX(h, n - 1 - 2 * i)) * HbTap(h, 2 * i),
                     HbFractionWidth)
             + HbSum(h, i + 1)

\* signal_out during a tick
HbSignalOut(h) ==
    IF h.mac_loop THEN h.signal_out ELSE WrapSigned(HbSum(h, 0), HbBitWidth)

\* ix = Signal(range(n + 2))
HbIxWidth(h) == bits_for(Len(h.taps) + 1)

\* State IDLE
HbIdleState(h) ==
    IF h.strobe_in = 1
    THEN [h EXCEPT !.ix = Trunc(2, HbIxWidth(h)),
                   !.a = WrapSigned(HbX(h, 0) + HbX(h, Len(h.taps) - 1),
                                    HbBitWidth + 1),
                   !.b = WrapSigned(HbTap(h, 0), HbBitWidth),
                   !.madd = 0,
                   !.fsm = "MAC"]
    ELSE h

\* State MAC
HbMacState(h) ==
    LET n == Len(h.taps)
        acc == [h EXCEPT !.madd = WrapSigned(
                    h.madd + HbShift(h.a * h.b, HbFractionWidth),
                    HbBitWidth + 1)]
    IN  IF h.ix > n \div 2
        THEN [acc EXCEPT !.fsm = "OUTPUT"]
        ELSE [acc EXCEPT
                !.a = WrapSigned(HbX(h, h.ix) + HbX(h, n - 1 - h.ix),
                                 HbBitWidth + 1),
                !.b = WrapSigned(HbTap(h, h.ix), HbBitWidth),
                !.ix = Trunc(h.ix + 2, HbIxWidth(h))]

\* State OUTPUT
HbOutputState(h) ==
    [h EXCEPT !.signal_out = WrapSigned(
                  h.madd + HbShift(HbX(h, Len(h.taps) \div 2), 1), HbBitWidth),
              !.fsm = "IDLE"]

\* mutant: every strobe counts as the second one
HbSecondStrobe_Always(h) == TRUE

\* the m.Else() of  with m.If(decimate_counter < 1)
HbSecondStrobe(h) == ~(h.decimate_counter < 1)

\* strobe_out after the tick: set by the second strobe, cleared by the later
\* assignment strobe_out.eq(0) whenever strobe_out is high
HbStrobeOut(h) ==
    IF h.strobe_out = 1 THEN 0
    ELSE IF h.strobe_in = 1 /\ HbSecondStrobe(h) THEN 1
    ELSE h.strobe_out

\* one tick of elaborate()
HbStep(h) ==
    LET g == IF ~h.mac_loop THEN h
             ELSE CASE h.fsm = "IDLE"   -> HbIdleState(h)
                    [] h.fsm = "MAC"    -> HbMacState(h)
                    [] h.fsm = "OUTPUT" -> HbOutputState(h)
    IN  [g EXCEPT
           !.x = IF h.strobe_in = 1
                 THEN <<h.signal_in>> \o SubSeq(h.x, 1, Len(h.x) - 1)
                 ELSE h.x,
           !.decimate_counter =
                 IF h.strobe_in = 1
                 THEN (IF HbSecondStrobe(h) THEN 0
                       ELSE Trunc(h.decimate_counter + 1, 1))
                 ELSE h.decimate_counter,
           !.strobe_out = HbStrobeOut(h)]

\* the arguments handed to __init__; inputs are driven once it is built
HbArguments(filter_order, mac_loop) ==
    [kind |-> "arguments", filter_order |-> filter_order, mac_loop |-> mac_loop]

\* __init__ and the reset state of elaborate(), or the failed assertion
HbConstructed(a, strobe, sample) ==
    IF ~HbOrderSupported(a.filter_order)
    THEN [kind |-> "rejected", filter_order |-> a.filter_order]
    ELSE [kind |-> "hb", filter_order |-> a.filter_order,
          taps |-> HbTaps(a.filter_order), mac_loop |-> a.mac_loop,
          x |-> [i \in 1..a.filter_order |-> 0],
          decimate_counter |-> 0, strobe_out |-> 0,
          fsm |-> "IDLE", ix |-> 0, madd |-> 0, a |-> 0, b |-> 0,
          signal_out |-> 0,
          strobe_in |-> strobe, signal_in |-> sample]

\* the greatest value signal_in = Signal(signed(bitwidth)) holds
HbMaxVal == Pow2(HbBitWidth - 1) - 1

\* the bench: any strobe_in pattern and samples of plus and minus full
\* scale, until MaxHbStrobes strobes were given
HbSamples == {-HbMaxVal, HbMaxVal}

HbInputs(b) ==
    IF b.strobes_in >= MaxHbStrobes
    THEN {<<0, 0>>}
    ELSE {<<0, 0>>} \cup {<<1, s>> : s \in HbSamples}

HbBenchReset == [kind |-> "hb", strobes_in |-> 0, strobes_out |-> 0]

HbObserve(h, h1, b) ==
    [b EXCEPT !.strobes_in = b.strobes_in + h.strobe_in,
              !.strobes_out = b.strobes_out + h1.strobe_out]

HbConstruct ==
    /\ hb.kind = "arguments"
    /\ \E inp \in HbInputs(hbBench) : hb' = HbConstructed(hb, inp[1], inp[2])
    /\ UNCHANGED <<convVars, fir, firBench, iir, iirBench, cic, cicBench,
                   hbBench, unitVars>>

HbTick ==
    /\ hb.kind = "hb"
    /\ hbBench' = HbObserve(hb, HbStep(hb), hbBench)
    /\ \E inp \in HbInputs(hbBench') :
         hb' = [HbStep(hb) EXCEPT !.strobe_in = inp[1], !.signal_in = inp[2]]
    /\ UNCHANGED <<convVars, fir, firBench, iir, iirBench, cic, cicBench, unitVars>>

InitHb ==
    /\ ConvAbsent
    /\ hbBench = HbBenchReset
    /\ \E filter_order \in 0..MaxHbOrder, mac_loop \in BOOLEAN :
         hb = HbArguments(filter_order, mac_loop)
    /\ fir = Absent /\ firBench = Absent
    /\ iir = Absent /\ iirBench = Absent
    /\ cic = Absent /\ cicBench = Absent
    /\ UnitsAbsent

NextHb == HbConstruct \/ HbTick
SpecHb == InitHb /\ [][NextHb]_vars

(***************************************************************************)
(* Properties of FixedPointHBFilter.                                       *)
(***************************************************************************)
IsHb == hb.kind = "hb"

\* strobe_out is high after a tick exactly when that tick took the 2nd,
\* 4th, 6th ... strobe
C19_PulseStep ==
    IsHb =>
        (hb'.strobe_out = 1 <=>
            (hb.strobe_in = 1 /\ (hbBench.strobes_in + 1) % 2 = 0))

C19_PulseCount ==
    IsHb => hbBench.strobes_out = hbBench.strobes_in \div 2

(***************************************************************************)
(* C19  Decimation by 2, parallel and serial-MAC mode, any input data and  *)
(* any strobe_in pattern: strobe_out is raised on the tick after every     *)
(* second tick with strobe_in high, each pulse lasts exactly one tick, and *)
(* after N input strobes the number of strobe_out pulses is floor(N / 2).  *)
(***************************************************************************)
C19_EverySecondStrobe == [][C19_PulseStep]_vars /\ []C19_PulseCount

C19_Witness ==
    /\ IsHb /\ hb.mac_loop
    /\ hb.filter_order = 7
    /\ hbBench.strobes_in = 4
    /\ hbBench.strobes_out = 2
    /\ hb.strobe_out = 1
    /\ hb.strobe_in = 1
    /\ hb.fsm = "MAC"

(***************************************************************************)
(* C20  Construction is accepted exactly for filter orders of the form     *)
(* 4m+3; for every other order (even orders, orders 4m+1) the assertion    *)
(* fails and no filter is created.                                         *)
(***************************************************************************)
C20_OrderCheck ==
    hb.kind \in {"hb", "rejected"} =>
        /\ hb.kind = "hb" <=> hb.filter_order % 4 = 3
        /\ hb.kind = "rejected" => hbBench.strobes_in = 0

C20_Witness ==
    /\ hb.kind = "rejected"
    /\ hb.filter_order = 5

\* ---------------------------------------------------------------------------
\* Fixed-point conversion of the coefficients in the constructors of
\* FixedPointFIRFilter, FixedPointIIRFilter and FixedPointHBFilter.
\*
\* The three constructors share the same sequence: the coefficient design
\* (scipy.signal, outside the repository) returns real coefficients, then
\*   assert bitwidth <= fraction_width
\*   taps_fp = [int(x * 2**fraction_width) for x in taps]
\*   assert abs(conversion_error(taps[i], taps_fp[i])) < 1.0   for every i
\* A real coefficient is the binary fraction n / CoeffDen, held as its
\* numerator n; CoeffDen has two more fraction bits than the widest
\* fraction_width, so that scaled coefficients with a fractional part of
\* 1/4, 1/2 and 3/4 all occur.
\* ---------------------------------------------------------------------------

MaxQuantBits == 3
MaxQuantFraction == 2

CoeffDen == Pow2(MaxQuantFraction + 2)

\* the coefficients a design may return: -1.0 .. 1.0 in steps of 1/CoeffDen
Coefficients == (0 - CoeffDen)..CoeffDen

\* assert bitwidth <= fraction_width
QuantWidthOk_Unchecked(bitwidth, fraction_width) == TRUE

QuantWidthOk(bitwidth, fraction_width) == bitwidth <= fraction_width

\* int(x * 2**fraction_width): the product is exact, int() drops the
\* fractional part, i.e. rounds toward zero
QuantTap(n, fraction_width) ==
    LET scaled == n * Pow2(fraction_width)
    IN  IF scaled >= 0 THEN scaled \div CoeffDen
        ELSE 0 - ((0 - scaled) \div CoeffDen)

\* abs(conversion_error(coeff, fp_coeff)) < 1.0, both sides times CoeffDen:
\*   val = 2**(bitwidth - 1); fp_result = (fp_coeff * val) >> fraction_width
\*   fp_error = fp_result - coeff * val
ConversionErrorOk_Unshifted(n, fp_coeff, bitwidth, fraction_width) ==
    LET val == Pow2(bitwidth - 1)
        fp_product == fp_coeff * val
    IN  Abs(fp_product * CoeffDen - n * val) < CoeffDen

ConversionErrorOk(n, fp_coeff, bitwidth, fraction_width) ==
    LET val == Pow2(bitwidth - 1)
        fp_product == fp_coeff * val
        fp_result == fp_product \div Pow2(fraction_width)
    IN  Abs(fp_result * CoeffDen - n * val) < CoeffDen

\* The coefficient lists of a filter: <<taps>> for FIR and half-band,
\* <<b, a>> for IIR.  position: "designed" (coefficients computed),
\* "checked" (width assertion passed), "converted" (taps_fp computed),
\* "built" (constructor returned), "rejected" (an assertion failed; `failed`
\* names it).
QuantDesigned(kind, bitwidth, fraction_width, coeffs) ==
    [kind |-> kind, bitwidth |-> bitwidth,
     fraction_width |-> fraction_width, coeffs |-> coeffs,
     taps_fp |-> <<>>, position |-> "designed", failed |-> "none"]

IsQuant == quant.kind \in {"fir", "iir", "hb"}

QuantCheckWidths ==
    /\ IsQuant
    /\ quant.position = "designed"
    /\ quant' = IF QuantWidthOk(quant.bitwidth, quant.fraction_width)
                THEN [quant EXCEPT !.position = "checked"]
                ELSE [quant EXCEPT !.position = "rejected",
                                   !.failed = "bitwidth"]
    /\ UNCHANGED <<convVars, filterVars>>

QuantConvert ==
    /\ IsQuant
    /\ quant.position = "checked"
    /\ quant' = [quant EXCEPT
            !.position = "converted",
            !.taps_fp = [l \in 1..Len(quant.coeffs) |->
                            [i \in 1..Len(quant.coeffs[l]) |->
                                QuantTap(quant.coeffs[l][i],
                                         quant.fraction_width)]]]
    /\ UNCHANGED <<convVars, filterVars>>

QuantCheckErrors ==
    /\ IsQuant
    /\ quant.position = "converted"
    /\ quant' = IF \A l \in 1..Len(quant.coeffs) :
                     \A i \in 1..Len(quant.coeffs[l]) :
                        ConversionErrorOk(quant.coeffs[l][i],
                                          quant.taps_fp[l][i],
                                          quant.bitwidth,
                                          quant.fraction_width)
                THEN [quant EXCEPT !.position = "built"]
                ELSE [quant EXCEPT !.position = "rejected",
                                   !.failed = "conversion_error"]
    /\ UNCHANGED <<convVars, filterVars>>

InitQuant ==
    /\ ConvAbsent
    /\ FiltersAbsent
    /\ \E kind \in {"fir", "iir", "hb"}, bitwidth \in 1..MaxQuantBits,
          fraction_width \in 1..MaxQuantFraction,
          c1 \in Coefficients, c2 \in Coefficients :
         quant = QuantDesigned(kind, bitwidth, fraction_width,
                               IF kind = "iir" THEN <<<<c1>>, <<c2>>>>
                               ELSE <<<<c1, c2>>>>)

NextQuant == QuantCheckWidths \/ QuantConvert \/ QuantCheckErrors

SpecQuant == InitQuant /\ [][NextQuant]_vars

\* --- claims about the conversion ---

\* every (list, index) position of the coefficient lists
QuantPositions ==
    { <<l, i>> \in (1..2) \X (1..2) :
        l <= Len(quant.coeffs) /\ i <= Len(quant.coeffs[l]) }

\* C21: a constructor with bitwidth > fraction_width fails at the width
\* assertion with no tap converted yet, one with bitwidth <= fraction_width
\* (equality included) passes it, and no filter is built with
\* bitwidth > fraction_width.
C21_WidthRejected ==
    IsQuant =>
        /\ quant.bitwidth > quant.fraction_width =>
              /\ quant.position \in {"designed", "rejected"}
              /\ quant.taps_fp = <<>>
              /\ quant.position = "rejected" => quant.failed = "bitwidth"
        /\ quant.bitwidth <= quant.fraction_width =>
              quant.failed # "bitwidth"
        /\ quant.position = "built" =>
              quant.bitwidth <= quant.fraction_width

C21_Witness ==
    /\ IsQuant
    /\ quant.position = "rejected"
    /\ quant.failed = "bitwidth"
    /\ quant.bitwidth = quant.fraction_width + 1
    /\ quant.taps_fp = <<>>

\* C22: every stored tap is the integer nearest to coefficient *
\* 2^fraction_width, at most 1/2 away from it.
C22_Nearest ==
    (IsQuant /\ quant.position \in {"converted", "built"}) =>
        \A p \in QuantPositions :
            2 * Abs(quant.taps_fp[p[1]][p[2]] * CoeffDen
                    - quant.coeffs[p[1]][p[2]] * Pow2(quant.fraction_width))
                <= CoeffDen

\* the absolute round-trip error of position p, times CoeffDen, from the
\* stored taps
C23_Error(p) ==
    LET val == Pow2(quant.bitwidth - 1)
        shifted == (quant.taps_fp[p[1]][p[2]] * val)
                       \div Pow2(quant.fraction_width)
    IN  Abs(shifted * CoeffDen - quant.coeffs[p[1]][p[2]] * val)

\* C23: a filter is built exactly when every coefficient's round-trip error
\* |((taps_fp * val) >> fraction_width) - c * val| is below 1.0: none is
\* built with an error of 1.0 or more, and the error assertion fails a
\* constructor only for such an error.
C23_ErrorContract ==
    IsQuant =>
        /\ quant.position = "built" =>
              \A p \in QuantPositions : C23_Error(p) < CoeffDen
        /\ quant.failed = "conversion_error" =>
              \E p \in QuantPositions : C23_Error(p) >= CoeffDen

C23_Witness ==
    /\ IsQuant
    /\ quant.position = "built"
    /\ quant.kind = "iir"
    /\ \E p \in QuantPositions :
          /\ C23_Error(p) > 0
          /\ 2 * C23_Error(p) > CoeffDen

\* ---------------------------------------------------------------------------
\* Filterbank (amlib/dsp/filterbank.py): num_instances identical filters in
\* a chain.  The constructor builds FIR filters without mac_loop (parallel
\* form) or IIR filters, all from the same arguments, hence with the same
\* coefficients.  elaborate() only adds combinational connections.
\* ---------------------------------------------------------------------------

MaxBankInstances == 3
MaxBankAccepted == 3

\* f.signal_out of a stage: combinational in both filter structures
StageSignalOut(s) ==
    IF s.kind = "fir" THEN FirSignalOut(s) ELSE IirSignalOut(s)

\* one tick of a stage's elaborate()
StageStep(s) == IF s.kind = "fir" THEN FirStep(s) ELSE IirStep(s)

\* mutant: every stage listens to the bank's input
BankStageInput_Parallel(stages, sample, i) == sample

\* f.signal_in.eq(last_filter.signal_out); filters[0].signal_in.eq(signal_in)
BankStageInput(stages, sample, i) ==
    IF i = 1 THEN sample ELSE StageSignalOut(stages[i - 1])

\* the combinational connections of elaborate(), for the inputs of this tick
BankWire(stages, enable, sample) ==
    [i \in 1..Len(stages) |->
        [stages[i] EXCEPT !.enable_in = enable,
                          !.signal_in = BankStageInput(stages, sample, i)]]

\* self.signal_out.eq(self.filters[-1].signal_out)
BankSignalOut(stages) == StageSignalOut(stages[Len(stages)])

\* the bank after reset: filters built from one argument set
BankReset(structure, coeffs, num_instances, enable, sample) ==
    LET stage == IF structure = "fir"
                 THEN FirReset(coeffs, FALSE, 0, 0)
                 ELSE IirReset(coeffs[1], coeffs[2], 0, 0)
        stages == BankWire([i \in 1..num_instances |-> stage], enable, sample)
    IN  [kind |-> "bank", stages |-> stages,
         enable_in |-> enable, signal_in |-> sample,
         signal_out |-> BankSignalOut(stages), accepted |-> 0]

\* the bench: any enable_in, any sample, until MaxBankAccepted were accepted
BankInputs(b) ==
    IF b.accepted >= MaxBankAccepted THEN {<<0, 0>>}
    ELSE {<<0, 0>>} \cup {<<1, s>> : s \in {FirMinVal, 1, FirMaxVal}}

IsBank == bank.kind = "bank"

BankTick ==
    /\ IsBank
    /\ \E inp \in BankInputs([bank EXCEPT
                !.accepted = bank.accepted + bank.enable_in]) :
         LET stepped == [i \in 1..Len(bank.stages) |->
                            StageStep(bank.stages[i])]
             stages == BankWire(stepped, inp[1], inp[2])
         IN  bank' = [bank EXCEPT
                !.stages = stages,
                !.enable_in = inp[1],
                !.signal_in = inp[2],
                !.signal_out = BankSignalOut(stages),
                !.accepted = bank.accepted + bank.enable_in]
    /\ UNCHANGED <<convVars, filterVars>>

InitBank ==
    /\ ConvAbsent
    /\ FiltersAbsent
    /\ \E structure \in {"fir", "iir"}, n \in 1..MaxBankInstances :
         \E coeffs \in (IF structure = "fir" THEN {FirTaps2, FirTaps3}
                        ELSE IirCoefficients) :
            \E inp \in BankInputs([accepted |-> 0]) :
               bank = BankReset(structure, coeffs, n, inp[1], inp[2])

NextBank == BankTick

SpecBank == InitBank /\ [][NextBank]_vars

\* --- claim about the bank ---

C24_Wired ==
    IsBank =>
        /\ \A i \in 1..Len(bank.stages) :
              /\ bank.stages[i].enable_in = bank.enable_in
              /\ i = 1 => bank.stages[i].signal_in = bank.signal_in
              /\ i > 1 => bank.stages[i].signal_in =
                              StageSignalOut(bank.stages[i - 1])
        /\ bank.signal_out = StageSignalOut(bank.stages[Len(bank.stages)])

\* a tick with enable_in high moves, in the same tick, the bank's input into
\* stage 0 and each stage's output into the next stage; a tick with
\* enable_in low changes no stage register
C24_NoRegister ==
    IsBank =>
        \A i \in 1..Len(bank.stages) :
            IF bank.enable_in = 1
            THEN bank'.stages[i].x[1] =
                    (IF i = 1 THEN bank.signal_in
                     ELSE StageSignalOut(bank.stages[i - 1]))
            ELSE bank'.stages[i].x = bank.stages[i].x

\* C24: on every tick every stage's enable_in is the bank's enable_in,
\* stage 0's signal_in is the bank's signal_in, stage i's signal_in is stage
\* i-1's signal_out, the bank's signal_out is the last stage's signal_out,
\* and the bank holds no register between the stages.
C24_Wiring == []C24_Wired /\ [][C24_NoRegister]_vars

C24_Witness ==
    /\ IsBank
    /\ Len(bank.stages) = 3
    /\ bank.accepted = 3
    /\ bank.stages[2].signal_in # 0
    /\ bank.stages[3].signal_in # 0
    /\ bank.stages[3].signal_in # bank.stages[2].signal_in
    /\ bank.stages[2].signal_in # bank.signal_in
    /\ bank.signal_out # 0

\* ---------------------------------------------------------------------------
\* FractionalResampler (an_amaranth_lib/dsp/resampler.py).
\*
\* One record holds the arguments, the registers (upsample_counter,
\* downsample_counter, the anti-aliasing filter's delay line, the FIFO's
\* words), the bench-driven inputs of the current tick (signal_in.valid,
\* signal_in.payload, signal_out.ready) and the bench's counters.  The
\* combinational signals are operators of the record.  The anti-aliasing
\* Filterbank is the default one: a single FIR stage in parallel form with
\* bitwidth = headroom_bitwidth and fraction_width = 18.  The FIFO is
\* amaranth.lib.fifo.SyncFIFO (first-word-fall-through): w_rdy while it holds
\* fewer than depth words, r_rdy while it holds a word, r_data its oldest
\* word.
\* ---------------------------------------------------------------------------

ResBitWidth == 8
MaxUpsample == 3
MaxDownsample == 3
MaxResAccepted == 3

\* headroom_bitwidth = int(math.ceil(self.bitwidth/8) * 9)
ResHeadroom == CeilDiv(ResBitWidth, 8) * 9

\* input_ready = (upsample_counter == 0) & downsamplefifo.w_rdy
ResInputReady(r) ==
    IF r.upsample_counter = 0 /\ Len(r.fifo) < r.upsample_factor
    THEN 1 ELSE 0

\* input_valid & input_ready
ResAccept(r) == r.valid = 1 /\ ResInputReady(r) = 1

\* antialiasingfilter.enable_in
ResEnable(r) ==
    IF ResAccept(r) \/ r.upsample_counter > 0 THEN 1 ELSE 0

\* upsampled_signal, a signed(headroom_bitwidth) signal
ResUpsampled(r) ==
    IF ResAccept(r)
    THEN WrapSigned(AsSigned(r.payload, ResBitWidth) * r.prescale, ResHeadroom)
    ELSE 0

\* Filterbank's default fraction_width, which the resampler does not override
ResFractionWidth == 18

\* width = self.bitwidth + self.fraction_width of the filter the resampler
\* builds (bitwidth = headroom_bitwidth)
ResFilterWidth == ResHeadroom + ResFractionWidth

\* v >> k on a signed value, one bit at a time
RECURSIVE ResShift(_, _)
ResShift(v, k) == IF k <= 0 THEN v ELSE ResShift(v \div 2, k - 1)

\* Const(n, signed(width)): n itself when it fits the width bits, else its
\* low width bits
ResTapConst(n) ==
    IF ResShift(n, ResFilterWidth - 1) \in {0, -1} THEN n
    ELSE WrapSigned(n, ResFilterWidth)

\* sum([((x[i] * taps[i]) >> self.fraction_width) for i in range(n)]) with
\* taps[i] = Const(self.taps[i], signed(width)), the terms from index i on
RECURSIVE ResFilterSum(_, _, _)
ResFilterSum(x, taps, i) ==
    IF i >= Len(taps) THEN 0
    ELSE ResShift(x[i + 1] * ResTapConst(taps[i + 1]), ResFractionWidth)
         + ResFilterSum(x, taps, i + 1)

\* antialiasingfilter.signal_out, a signed(headroom_bitwidth) signal
ResFilterOut(r) == WrapSigned(ResFilterSum(r.x, r.taps, 0), ResHeadroom)

\* downsamplefifo.w_en & downsamplefifo.w_rdy: a word is written
ResWrite(r) == ResEnable(r) = 1 /\ Len(r.fifo) < r.upsample_factor

\* mutant: the FIFO is read whether or not the consumer is ready
ResPop_IgnoresReady(r) == Len(r.fifo) > 0

\* downsamplefifo.r_en & downsamplefifo.r_rdy: a word is popped
ResPop(r) == Len(r.fifo) > 0 /\ r.out_ready = 1

\* mutant: valid follows r_rdy
ResOutValid_WhenReadable(r) == IF Len(r.fifo) > 0 THEN 1 ELSE 0

\* signal_out.valid
ResOutValid(r) ==
    IF ResPop(r) /\ r.downsample_counter = 0 THEN 1 ELSE 0

\* signal_out.payload
ResOutPayload(r) ==
    IF ResPop(r) /\ r.downsample_counter = 0 THEN Head(r.fifo) ELSE 0

\* the registers after one tick
ResStep(r) ==
    LET popped == IF ResPop(r) THEN Tail(r.fifo) ELSE r.fifo
    IN  [r EXCEPT
          !.upsample_counter =
              IF ResAccept(r) THEN r.upsample_factor - 1
              ELSE IF r.upsample_counter > 0 THEN r.upsample_counter - 1
              ELSE r.upsample_counter,
          !.downsample_counter =
              IF ~ResPop(r) THEN r.downsample_counter
              ELSE IF r.downsample_counter = 0 THEN r.downsample_factor - 1
              ELSE r.downsample_counter - 1,
          !.x = IF ResEnable(r) = 1
                THEN FirDelayLine(r.x, ResUpsampled(r))
                ELSE r.x,
          !.fifo = IF ResWrite(r)
                   THEN Append(popped, Trunc(ResFilterOut(r), ResBitWidth))
                   ELSE popped]

\* the bench's counters after the tick: accepted inputs, ticks since the
\* last accepting tick (0: none yet; capped at upsample_factor), FIFO writes,
\* enabled ticks without a write, pops
ResObserve(r) ==
    [r EXCEPT
      !.accepted = r.accepted + (IF ResAccept(r) THEN 1 ELSE 0),
      !.since = IF ResAccept(r) THEN 1
                ELSE IF r.since = 0 THEN 0
                ELSE Min(r.since + 1, r.upsample_factor),
      !.held = IF ResAccept(r) THEN r.payload ELSE r.held,
      !.writes = r.writes + (IF ResWrite(r) THEN 1 ELSE 0),
      !.lost = r.lost + (IF ResEnable(r) = 1 /\ ~ResWrite(r) THEN 1 ELSE 0),
      !.pops = r.pops + (IF ResPop(r) THEN 1 ELSE 0)]

\* self.taps of the filter: the coefficients 0.5 and -0.25 times
\* 2^fraction_width
ResTaps == <<Pow2(ResFractionWidth - 1), 0 - Pow2(ResFractionWidth - 2)>>

ResPayloads == {1, 100, Pow2(ResBitWidth) - 100}

\* the inputs the bench may drive: <<valid, payload, ready>>
ResInputs(accepted) ==
    {<<0, 0, rdy>> : rdy \in {0, 1}} \cup
    (IF accepted >= MaxResAccepted THEN {}
     ELSE {<<1, p, rdy>> : p \in ResPayloads, rdy \in {0, 1}})

ResReset(upsample_factor, downsample_factor, taps, inp) ==
    [kind |-> "resampler",
     upsample_factor |-> upsample_factor,
     downsample_factor |-> downsample_factor,
     prescale |-> 4, taps |-> taps,
     upsample_counter |-> 0, downsample_counter |-> 0,
     x |-> [i \in 1..Len(taps) |-> 0], fifo |-> <<>>,
     valid |-> inp[1], payload |-> inp[2], out_ready |-> inp[3],
     accepted |-> 0, since |-> 0, held |-> 0,
     writes |-> 0, lost |-> 0, pops |-> 0]

IsRs == rs.kind = "resampler"

ResTick ==
    /\ IsRs
    /\ LET observed == ResObserve(rs)
       IN  \E inp \in ResInputs(observed.accepted) :
              rs' = [ResStep(observed) EXCEPT
                        !.valid = inp[1], !.payload = inp[2],
                        !.out_ready = inp[3]]
    /\ UNCHANGED <<convVars, filterVars>>

InitRs ==
    /\ ConvAbsent
    /\ FiltersAbsent
    /\ \E u \in 1..MaxUpsample, d \in 1..MaxDownsample, inp \in ResInputs(0) :
         rs = ResReset(u, d, ResTaps, inp)

NextRs == ResTick

SpecRs == InitRs /\ [][NextRs]_vars

\* --- claims about the resampler ---

\* the enable schedule alone: enabled on the accepting tick and the
\* upsample_factor - 1 ticks after it, on no other tick, and nothing is
\* accepted on those ticks
ResSchedule ==
    IsRs =>
        /\ ResAccept(rs) => ResEnable(rs) = 1
        /\ (rs.since >= 1 /\ rs.since < rs.upsample_factor) =>
              /\ ~ResAccept(rs)
              /\ ResEnable(rs) = 1
              /\ ResUpsampled(rs) = 0
        /\ (~ResAccept(rs) /\ rs.since \in {0, rs.upsample_factor}) =>
              ResEnable(rs) = 0

\* C25: the filterbank is enabled on exactly the upsample_factor ticks that
\* start with an accepted input, its input is payload * prescale on the
\* first of them and 0 on the others, and no input is accepted meanwhile.
C25_Upsampling ==
    /\ ResSchedule
    /\ (IsRs /\ ResAccept(rs)) =>
          ResUpsampled(rs) = AsSigned(rs.payload, ResBitWidth) * rs.prescale

\* C26: signal_out.valid is high exactly on the ticks of pops number 0,
\* downsample_factor, 2 * downsample_factor, ..., with the popped word as
\* payload; a pop needs a non-empty FIFO and signal_out.ready high.
C26_Downsampling ==
    IsRs =>
        /\ ResOutValid(rs) = 1 <=>
              (ResPop(rs) /\ rs.pops % rs.downsample_factor = 0)
        /\ ResOutValid(rs) = 1 => ResOutPayload(rs) = Head(rs.fifo)
        /\ ResPop(rs) => (Len(rs.fifo) > 0 /\ rs.out_ready = 1)
        /\ rs.pops <= rs.writes

C26_Witness ==
    /\ IsRs
    /\ rs.downsample_factor = 3
    /\ rs.pops = 3
    /\ ResPop(rs)
    /\ ResOutValid(rs) = 1
    /\ ResOutPayload(rs) # 0

\* C27: the filterbank is never enabled while the FIFO is full, and once a
\* burst is over the FIFO was written upsample_factor times per accepted
\* input.
C27_NoLoss ==
    IsRs =>
        /\ ~(ResEnable(rs) = 1 /\ Len(rs.fifo) = rs.upsample_factor)
        /\ rs.lost = 0
        /\ (rs.upsample_counter = 0) =>
              rs.writes = rs.upsample_factor * rs.accepted

C40_ValidNeedsReady ==
    IsRs => (ResOutValid(rs) = 1 => (rs.out_ready = 1 /\ ResPop(rs)))

\* a tick with signal_out.ready low: the words of the FIFO stay, in order
\* and at the front, and the downsample counter keeps its value
C40_Stalled ==
    (IsRs /\ rs.out_ready = 0) =>
        /\ rs'.downsample_counter = rs.downsample_counter
        /\ rs'.pops = rs.pops
        /\ Len(rs'.fifo) >= Len(rs.fifo)
        /\ SubSeq(rs'.fifo, 1, Len(rs.fifo)) = rs.fifo

\* C40: signal_out.valid is never high on a tick where signal_out.ready is
\* low, so every tick with valid high transfers the token (and pops it);
\* on a tick with signal_out.ready low no FIFO word is popped and the
\* downsample counter does not change.
C40_OutputHandshake == []C40_ValidNeedsReady /\ [][C40_Stalled]_vars

\* the consumer is not ready while the next word to release waits in the
\* FIFO, after earlier pops
C40_Witness ==
    /\ IsRs
    /\ rs.out_ready = 0
    /\ Len(rs.fifo) = 2
    /\ rs.downsample_counter = 0
    /\ rs.downsample_factor = 2
    /\ rs.pops = 2
    /\ ResOutValid(rs) = 0

\* ---------------------------------------------------------------------------
\* ConstantStreamGenerator (amlib/stream/generator.py), byte-wide data with a
\* one-bit valid.  The record holds the arguments (data, whether a
\* max_length signal exists), the inputs the bench holds for the whole run
\* (start_position, max_length), the registers (FSM state,
\* position_in_stream, bytes_sent, the ROM read port's data register), the
\* inputs of the current tick (start, stream.ready) and the bench's notes.
\* ---------------------------------------------------------------------------

MaxGenData == 4
MaxGenLength == 5
MaxGenStarts == 2

\* constant_data: the first n bytes of b"HELLO, WORLD"
GenWords == <<72, 69, 76, 76, 79, 44, 32>>

\* self.max_length: the signal, or the constant self._data_length
GenMaxLength(g) == IF g.limited THEN g.max_length ELSE Len(g.data)

\* bytes_per_word = (self._data_width + 7) // 8, or 0 without max_length_width
GenBytesPerWord(g) == IF g.limited THEN 1 ELSE 0

\* the combinational start_position, clamped to the data
GenStartPosition(g) ==
    IF g.start_position >= Len(g.data) THEN Len(g.data) - 1
    ELSE g.start_position

\* on_first_packet = position_in_stream == self.start_position
GenOnFirstPacket(g) == g.position_in_stream = g.start_position

\* mutant: the length limit is reached one word late
GenOnLastPacket_Late(g) ==
    \/ g.position_in_stream = Len(g.data) - 1
    \/ g.bytes_sent >= GenMaxLength(g)

\* on_last_packet
GenOnLastPacket(g) ==
    \/ g.position_in_stream = Len(g.data) - 1
    \/ g.bytes_sent + GenBytesPerWord(g) >= GenMaxLength(g)

\* mutant: the read address never runs ahead of the position
GenRomAddr_Current(g) ==
    IF g.fsm = "IDLE" THEN GenStartPosition(g) ELSE g.position_in_stream

\* rom_read_port.addr (0 in DONE, where nothing drives it)
GenRomAddr(g) ==
    CASE g.fsm = "IDLE" -> GenStartPosition(g)
      [] g.fsm = "STREAMING" ->
            IF g.ready = 1 /\ ~GenOnLastPacket(g)
            THEN g.position_in_stream + 1
            ELSE g.position_in_stream
      [] OTHER -> 0

\* the stream's outputs and done
GenValid(g) == IF g.fsm = "STREAMING" THEN 1 ELSE 0
GenPayload(g) == IF g.fsm = "STREAMING" THEN g.rom_data ELSE 0
GenFirst(g) == IF g.fsm = "STREAMING" /\ GenOnFirstPacket(g) THEN 1 ELSE 0
GenLast(g) == IF g.fsm = "STREAMING" /\ GenOnLastPacket(g) THEN 1 ELSE 0
GenDone(g) == IF g.fsm = "DONE" THEN 1 ELSE 0

GenOutputs(g) == <<GenValid(g), GenPayload(g), GenFirst(g), GenLast(g)>>

\* the registers after one tick
GenStep(g) ==
    LET read == [g EXCEPT !.rom_data = g.data[GenRomAddr(g) + 1]]
    IN  CASE g.fsm = "IDLE" ->
               [read EXCEPT
                  !.position_in_stream = GenStartPosition(g),
                  !.bytes_sent = 0,
                  !.fsm = IF g.start = 1 /\ GenMaxLength(g) > 0
                          THEN "STREAMING" ELSE "IDLE"]
          [] g.fsm = "STREAMING" ->
               IF g.ready = 0 THEN read
               ELSE IF ~GenOnLastPacket(g)
               THEN [read EXCEPT
                       !.position_in_stream = g.position_in_stream + 1,
                       !.bytes_sent = g.bytes_sent + GenBytesPerWord(g)]
               ELSE [read EXCEPT !.fsm = "DONE"]
          [] OTHER -> [read EXCEPT !.fsm = "IDLE"]

\* the bench's notes after the tick: whether start was ever high, the ticks
\* with start high, and for the current run the tokens transferred, whether
\* ready was low on one of its STREAMING ticks, the STREAMING ticks before
\* that, and whether this tick transferred the token with last = 1
GenObserve(g) ==
    LET begins == g.fsm = "IDLE" /\ g.start = 1 /\ GenMaxLength(g) > 0
        moves == GenValid(g) = 1 /\ g.ready = 1
    IN  [g EXCEPT
          !.pulsed = g.pulsed \/ g.start = 1,
          !.starts = g.starts + (IF g.start = 1 THEN 1 ELSE 0),
          !.sent = IF begins THEN <<>>
                   ELSE IF moves
                   THEN Append(g.sent, [payload |-> GenPayload(g),
                                        first |-> GenFirst(g),
                                        last |-> GenLast(g)])
                   ELSE g.sent,
          !.ticks = IF begins THEN 0
                    ELSE IF g.stalled \/ g.ready = 0 THEN g.ticks
                    ELSE g.ticks + GenValid(g),
          !.stalled = IF begins THEN FALSE
                      ELSE g.stalled \/ (GenValid(g) = 1 /\ g.ready = 0),
          !.after_last = moves /\ GenLast(g) = 1]

\* the inputs the bench may drive: <<start, ready>>
GenInputs(starts) ==
    {<<s, r>> : s \in (IF starts >= MaxGenStarts THEN {0} ELSE {0, 1}),
                r \in {0, 1}}

GenReset(n, limited, start_position, max_length, inp) ==
    [kind |-> "generator",
     data |-> SubSeq(GenWords, 1, n), limited |-> limited,
     start_position |-> start_position, max_length |-> max_length,
     fsm |-> "IDLE", position_in_stream |-> 0, bytes_sent |-> 0,
     rom_data |-> 0,
     start |-> inp[1], ready |-> inp[2],
     pulsed |-> FALSE, starts |-> 0, sent |-> <<>>, ticks |-> 0,
     stalled |-> FALSE, after_last |-> FALSE]

IsGen == gen.kind = "generator"

GenTick ==
    /\ IsGen
    /\ LET observed == GenObserve(gen)
       IN  \E inp \in GenInputs(observed.starts) :
              gen' = [GenStep(observed) EXCEPT
                         !.start = inp[1], !.ready = inp[2]]
    /\ UNCHANGED <<convVars, filterVars>>

InitGen ==
    /\ ConvAbsent
    /\ FiltersAbsent
    /\ \E n \in 1..MaxGenData, limited \in BOOLEAN :
         \E start_position \in 0..(n - 1),
            max_length \in (IF limited THEN 0..MaxGenLength ELSE {0}),
            inp \in GenInputs(0) :
              gen = GenReset(n, limited, start_position, max_length, inp)

NextGen == GenTick

SpecGen == InitGen /\ [][NextGen]_vars

\* --- claims about the generator ---

\* the number of words a run transfers
GenExpectedCount ==
    Min(GenMaxLength(gen), Len(gen.data) - gen.start_position)

\* the i-th word of a run (i from 1)
GenExpectedWord(i) == gen.data[gen.start_position + i]

\* C28: with max_length not limiting and ready high on every tick of the run
\* so far, valid stays high, the k-th streaming tick shows
\* constant_data[start_position + k] and transfers it, first is high on the
\* first token only, last on the final one only, and valid is low on the
\* tick after the final token was accepted.
C28_Throughput ==
    (/\ IsGen
     /\ GenMaxLength(gen) >= Len(gen.data) - gen.start_position
     /\ ~gen.stalled) =>
        /\ Len(gen.sent) = gen.ticks
        /\ \A i \in 1..Len(gen.sent) :
              gen.sent[i] =
                  [payload |-> GenExpectedWord(i),
                   first |-> (IF i = 1 THEN 1 ELSE 0),
                   last |-> (IF i = Len(gen.data) - gen.start_position
                             THEN 1 ELSE 0)]
        /\ gen.fsm = "STREAMING" =>
              /\ gen.ticks < Len(gen.data) - gen.start_position
              /\ GenOutputs(gen) =
                    <<1, GenExpectedWord(gen.ticks + 1),
                      IF gen.ticks = 0 THEN 1 ELSE 0,
                      IF gen.ticks + 1 = Len(gen.data) - gen.start_position
                      THEN 1 ELSE 0>>
        /\ gen.after_last =>
              /\ GenValid(gen) = 0
              /\ Len(gen.sent) = Len(gen.data) - gen.start_position

C28_Witness ==
    /\ IsGen
    /\ ~gen.stalled
    /\ gen.after_last
    /\ gen.start_position = 1
    /\ Len(gen.data) = 4
    /\ Len(gen.sent) = 3
    /\ gen.ticks = 3
    /\ gen.limited /\ gen.max_length = 5

C29_Transferred ==
    IsGen =>
        /\ ~gen.pulsed => GenValid(gen) = 0
        /\ Len(gen.sent) <= GenExpectedCount
        /\ \A i \in 1..Len(gen.sent) :
              /\ gen.sent[i].payload = GenExpectedWord(i)
              /\ gen.sent[i].last = (IF i = GenExpectedCount THEN 1 ELSE 0)
        /\ GenValid(gen) = 1 =>
              /\ Len(gen.sent) < GenExpectedCount
              /\ GenPayload(gen) = GenExpectedWord(Len(gen.sent) + 1)
        /\ gen.after_last => Len(gen.sent) = GenExpectedCount

C29_Held ==
    (IsGen /\ GenValid(gen) = 1 /\ gen.ready = 0) =>
        GenOutputs(gen') = GenOutputs(gen)

\* C29: valid is low until start is pulsed; a datum not accepted is held on
\* the next tick with the same valid, first and last; and for every ready
\* pattern the transferred payloads are the first min(max_length, remaining
\* data) words from start_position, the last of them with last = 1.
C29_Backpressure == []C29_Transferred /\ [][C29_Held]_vars

C29_Witness ==
    /\ IsGen
    /\ gen.stalled
    /\ gen.after_last
    /\ gen.limited /\ gen.max_length = 2
    /\ gen.start_position = 1
    /\ Len(gen.data) = 4
    /\ Len(gen.sent) = 2
    /\ gen.ticks = 1
    /\ gen.sent[2].last = 1
    /\ gen.starts = 2

\* ---------------------------------------------------------------------------
\* Timer (nmigen_library/utils/timer.py).  The record holds the arguments
\* (allow_restart; the width is TimerWidth), the registers (FSM state,
\* counter_out), the inputs of the current tick (load_in, reload_in, start)
\* and the bench's notes on the run in progress.
\* ---------------------------------------------------------------------------

TimerWidth == 3
MaxTimerLoad == 3

\* done = fsm.ongoing("DONE")
TimerDone(t) == IF t.fsm = "DONE" THEN 1 ELSE 0

\* IDLE with start high and a non-zero counter: the timer starts
TimerStarts(t) == t.fsm = "IDLE" /\ t.start = 1 /\ t.counter_out > 0

\* the registers after one tick
TimerStep(t) ==
    CASE t.fsm = "IDLE" ->
           IF TimerStarts(t)
           THEN [t EXCEPT !.counter_out = Trunc(t.counter_out - 1, TimerWidth),
                          !.fsm = "RUNNING"]
           ELSE [t EXCEPT !.counter_out = IF t.load_in > 0 THEN t.load_in
                                          ELSE t.reload_in]
      [] t.fsm = "RUNNING" ->
           [t EXCEPT !.counter_out = Trunc(t.counter_out - 1, TimerWidth),
                     !.fsm = IF t.counter_out = 1 THEN "DONE" ELSE "RUNNING"]
      [] OTHER ->
           IF t.reload_in > 0
           THEN [t EXCEPT !.counter_out = Trunc(t.reload_in - 1, TimerWidth),
                          !.fsm = "RUNNING"]
           ELSE IF t.allow_restart THEN [t EXCEPT !.fsm = "IDLE"]
           ELSE t

\* the bench's notes after the tick: whether counter_out was latched from
\* load_in with reload_in = 0, the counter value a run was started with
\* (0: no run noted) and the ticks since that start, noted for a latched
\* value, while reload_in stays 0 and for as many ticks as the start value;
\* and the reload_in seen on the last tick with done high (0: none noted)
\* with the ticks since that tick, noted for as many ticks as that value
TimerObserve(t) ==
    LET run ==
          IF TimerStarts(t)
          THEN IF t.loaded /\ t.reload_in = 0
               THEN [t EXCEPT !.run_load = t.counter_out, !.run_ticks = 1]
               ELSE [t EXCEPT !.run_load = 0, !.run_ticks = 0,
                              !.loaded = FALSE]
          ELSE IF t.fsm = "IDLE"
          THEN [t EXCEPT !.run_load = 0, !.run_ticks = 0,
                         !.loaded = (t.load_in > 0 /\ t.reload_in = 0)]
          ELSE IF t.run_load > 0 /\ t.reload_in = 0
                  /\ t.run_ticks < t.run_load
          THEN [t EXCEPT !.run_ticks = t.run_ticks + 1]
          ELSE [t EXCEPT !.run_load = 0, !.run_ticks = 0]
    IN  IF TimerDone(t) = 1 /\ t.reload_in > 0
        THEN [run EXCEPT !.period = t.reload_in, !.period_ticks = 1]
        ELSE IF TimerDone(t) = 0 /\ t.period > 0
                /\ t.period_ticks < t.period
        THEN [run EXCEPT !.period_ticks = t.period_ticks + 1]
        ELSE [run EXCEPT !.period = 0, !.period_ticks = 0]

\* the inputs the bench may drive: <<load_in, reload_in, start>>
TimerInputs == (0..MaxTimerLoad) \X (0..MaxTimerLoad) \X {0, 1}

TimerReset(allow_restart, inp) ==
    [kind |-> "timer", allow_restart |-> allow_restart,
     fsm |-> "IDLE", counter_out |-> 0,
     load_in |-> inp[1], reload_in |-> inp[2], start |-> inp[3],
     loaded |-> FALSE, run_load |-> 0, run_ticks |-> 0,
     period |-> 0, period_ticks |-> 0]

IsTimer == timer.kind = "timer"

TimerTick ==
    /\ IsTimer
    /\ \E inp \in TimerInputs :
         timer' = [TimerStep(TimerObserve(timer)) EXCEPT
                      !.load_in = inp[1], !.reload_in = inp[2],
                      !.start = inp[3]]
    /\ UNCHANGED <<convVars, filterVars>>

InitTimer ==
    /\ ConvAbsent
    /\ FiltersAbsent
    /\ \E allow_restart \in BOOLEAN, inp \in TimerInputs :
         timer = TimerReset(allow_restart, inp)

NextTimer == TimerTick

SpecTimer == InitTimer /\ [][NextTimer]_vars

\* --- claims about the timer ---

\* C30: k ticks after a start with counter_out = L >= 1 and reload_in = 0
\* (1 <= k <= L) counter_out is L - k, done is low for k < L and high for
\* k = L.
C30_OneShot ==
    (IsTimer /\ timer.run_load >= 1) =>
        /\ timer.counter_out = timer.run_load - timer.run_ticks
        /\ TimerDone(timer) =
              (IF timer.run_ticks = timer.run_load THEN 1 ELSE 0)

\* the same for start values of 2 and more
TimerOneShotFromTwo == timer.run_load = 1 \/ C30_OneShot

\* the period alone: k ticks after a tick with done high and reload_in = R
\* (1 <= k <= R), done is low for k < R and high for k = R
TimerPeriod ==
    (IsTimer /\ timer.period >= 1) =>
        TimerDone(timer) =
            (IF timer.period_ticks = timer.period THEN 1 ELSE 0)

\* a tick with done high, reload_in = 0 and allow_restart leads to IDLE, and
\* IDLE, where done is low, is left only by a start
TimerBackToIdle ==
    IsTimer =>
        /\ (TimerDone(timer) = 1 /\ timer.reload_in = 0
               /\ timer.allow_restart) => timer'.fsm = "IDLE"
        /\ timer.fsm = "IDLE" =>
              /\ TimerDone(timer) = 0
              /\ timer'.fsm # "IDLE" => timer.start = 1

\* C31: for every reload value R >= 1, R = 1 included, done is low on the
\* R - 1 ticks after a tick with done high and reload_in = R and high again
\* on the R-th; with reload_in = 0 and allow_restart the timer goes from
\* DONE to IDLE and done stays low until the next start.
C31_Periodic == []TimerPeriod /\ [][TimerBackToIdle]_vars

\* the same for reload values of 2 and more
TimerPeriodicFromTwo ==
    /\ [](timer.period = 1 \/ TimerPeriod)
    /\ [][TimerBackToIdle]_vars

\* ---------------------------------------------------------------------------
\* DividingCounter (nmigen_library/utils/dividingcounter.py).  The record
\* holds the arguments (divisor, width), the registers (counter_out,
\* divided_counter_out, dividable_out, dividing_cycle_counter), the inputs of
\* the current tick (reset_in, active_in) and the bench's own counters.
\* ---------------------------------------------------------------------------

MaxDivisor == 4
MaxDivWidth == 3

\* mutant: the sub-counter runs on through a wrap of the main counter
DivWraps_Never(d) == FALSE

\* self.counter_out == (2 ** self.counter_out.width) - 1
DivWraps(d) == d.counter_out = Pow2(d.width) - 1

\* dividing_cycle_counter == self.divisor - 1
DivCycleDone(d) == d.dividing_cycle_counter = d.divisor - 1

\* the registers after one tick
DivStep(d) ==
    IF d.reset_in = 1
    THEN [d EXCEPT !.counter_out = 0, !.divided_counter_out = 0,
                   !.dividing_cycle_counter = 0]
    ELSE IF d.active_in = 0 THEN d
    ELSE [d EXCEPT
            !.dividing_cycle_counter =
                IF DivWraps(d) \/ DivCycleDone(d) THEN 0
                ELSE Trunc(d.dividing_cycle_counter + 1,
                           bits_for(d.divisor - 1)),
            !.divided_counter_out =
                IF DivCycleDone(d)
                THEN Trunc(d.divided_counter_out + 1, d.width)
                ELSE d.divided_counter_out,
            !.dividable_out = IF DivCycleDone(d) THEN 1 ELSE 0,
            !.counter_out = Trunc(d.counter_out + 1, d.width)]

\* the bench's counters after the tick: the active ticks since the last
\* reset or wrap of counter_out, and the number of times, modulo 2^width,
\* that count reached a multiple of divisor since the last reset
DivObserve(d) ==
    IF d.reset_in = 1 THEN [d EXCEPT !.run = 0, !.completed = 0]
    ELSE IF d.active_in = 0 THEN d
    ELSE [d EXCEPT
            !.run = IF d.run = Pow2(d.width) - 1 THEN 0 ELSE d.run + 1,
            !.completed =
                IF (d.run + 1) % d.divisor = 0
                THEN (d.completed + 1) % Pow2(d.width)
                ELSE d.completed]

\* the inputs the bench may drive: <<reset_in, active_in>>
DivInputs == {0, 1} \X {0, 1}

DivReset(divisor, width, inp) ==
    [kind |-> "dividingcounter", divisor |-> divisor, width |-> width,
     counter_out |-> 0, divided_counter_out |-> 0, dividable_out |-> 0,
     dividing_cycle_counter |-> 0,
     reset_in |-> inp[1], active_in |-> inp[2],
     run |-> 0, completed |-> 0]

IsDiv == divider.kind = "dividingcounter"

DivTick ==
    /\ IsDiv
    /\ \E inp \in DivInputs :
         divider' = [DivStep(DivObserve(divider)) EXCEPT
                        !.reset_in = inp[1], !.active_in = inp[2]]
    /\ UNCHANGED <<convVars, filterVars>>

InitDiv ==
    /\ ConvAbsent
    /\ FiltersAbsent
    /\ \E divisor \in 1..MaxDivisor, width \in 1..MaxDivWidth,
          inp \in DivInputs :
         divider = DivReset(divisor, width, inp)

NextDiv == DivTick

SpecDiv == InitDiv /\ [][NextDiv]_vars

\* --- claim about the dividing counter ---

\* on every tick: dividable_out high only with counter_out a multiple of
\* divisor; the sub-counter is the number of active ticks since the last
\* reset or wrap, modulo divisor; divided_counter_out is the number of
\* completed groups of divisor active ticks
C32_Divides ==
    IsDiv =>
        /\ divider.dividable_out = 1 =>
              divider.counter_out % divider.divisor = 0
        /\ divider.counter_out = divider.run
        /\ divider.dividing_cycle_counter = divider.run % divider.divisor
        /\ divider.divided_counter_out = divider.completed

\* over a tick: counter_out counts the ticks with active_in = 1 and
\* reset_in = 0 modulo 2^width and keeps its value on a tick with
\* active_in = 0 and reset_in = 0; divided_counter_out moves, by one, exactly
\* on the tick that completes divisor active ticks; the sub-counter is 0
\* after a wrap of counter_out and after a tick with reset_in = 1, which
\* also clears both counters
C32_Counts ==
    IsDiv =>
        /\ (divider.reset_in = 0 /\ divider.active_in = 1) =>
              /\ divider'.counter_out =
                    (divider.counter_out + 1) % Pow2(divider.width)
              /\ divider'.divided_counter_out =
                    (divider.divided_counter_out
                       + (IF divider.dividing_cycle_counter
                               = divider.divisor - 1
                          THEN 1 ELSE 0)) % Pow2(divider.width)
              /\ divider'.counter_out = 0 =>
                    divider'.dividing_cycle_counter = 0
        /\ (divider.reset_in = 0 /\ divider.active_in = 0) =>
              /\ divider'.counter_out = divider.counter_out
              /\ divider'.divided_counter_out = divider.divided_counter_out
              /\ divider'.dividing_cycle_counter =
                    divider.dividing_cycle_counter
        /\ divider.reset_in = 1 =>
              /\ divider'.counter_out = 0
              /\ divider'.divided_counter_out = 0
              /\ divider'.dividing_cycle_counter = 0

\* C32: for every divisor >= 1, every width and every sequence of reset_in
\* and active_in, without reset counter_out increments modulo 2^width on a
\* tick with active_in = 1 and is unchanged on one with active_in = 0;
\* whenever dividable_out is 1, counter_out is a multiple of divisor;
\* divided_counter_out increments once per divisor active ticks of the
\* sub-counter, which restarts from 0 at a wrap of counter_out and on reset.
C32_DividingCounter == []C32_Divides /\ [][C32_Counts]_vars

\* counter_out has wrapped with a divisor that does not divide 2^width, and
\* dividable_out is high again after the wrap
C32_Witness ==
    /\ IsDiv
    /\ divider.divisor = 3
    /\ divider.width = 2
    /\ divider.counter_out = 3
    /\ divider.dividable_out = 1
    /\ divider.divided_counter_out = 2

\* ---------------------------------------------------------------------------
\* StereoConvolutionMAC under a probe.  The bench of this specification puts
\* up tokens with any first and last flags, and a probe reads the engine's
\* registers on every tick: the ticks the FSM has spent in MAC since it last
\* entered it, and how often each packed word address was accumulated in
\* that pass.  Both counts stop at MaxProbeCount.
\* ---------------------------------------------------------------------------

MaxProbeCount == 6

\* the word address whose read data the MAC state accumulates on this tick:
\* inside If(ix <= samples_per_slice) / If(ix > 0), the word at the latched
\* read address
ProbeAccumulates(c, d) ==
    d.fsm = "MAC" /\ d.ix <= c.samples_per_slice /\ d.ix > 0

ProbeWord(c, d) ==
    IF d.latch_addr >= c.samples_per_slice
    THEN c.samples_per_slice - 1 ELSE d.latch_addr

ProbeReset ==
    [kind |-> "probe", mac_ticks |-> 0, accumulated |-> <<>>]

\* the probe's counts after a tick that starts with engine d and ends with d1
ProbeObserve(p, c, d, d1) ==
    LET entering == d.fsm = "IDLE" /\ d1.fsm = "MAC"
        counted == IF ProbeAccumulates(c, d)
                   THEN [p.accumulated EXCEPT ![ProbeWord(c, d)] =
                            Min(@ + 1, MaxProbeCount)]
                   ELSE p.accumulated
    IN  IF entering
        THEN [p EXCEPT !.mac_ticks = 0,
                       !.accumulated =
                          [w \in 0..(c.samples_per_slice - 1) |-> 0]]
        ELSE IF d.fsm = "MAC"
        THEN [p EXCEPT !.mac_ticks = Min(p.mac_ticks + 1, MaxProbeCount),
                       !.accumulated = counted]
        ELSE p

IsProbed == probe.kind = "probe"

TickProbed ==
    /\ cfg.status = "ok"
    /\ args2 = <<>>
    /\ IsProbed
    /\ LET accepted == signal_in.valid = 1 /\ SignalInReady(dut) = 1
           d1 == Step(cfg, dut, signal_in, out_ready)
       IN  /\ dut' = d1
           /\ outs' = IF d1.valid = 1 THEN Append(outs, Shown(d1)) ELSE outs
           /\ Observe(accepted, d1)
           /\ probe' = ProbeObserve(probe, cfg, dut, d1)
    /\ UNCHANGED <<args, cfg, env, args2, cfg2, dut2, outs2, filterVars>>

\* slices 1 and 2 with samples_per_slice 2, and one tap (samples_per_slice 1)
FreeArgs ==
    {Args(Taps2, 2, "STEREO"), Args(Taps4, 2, "CROSSFEED"),
     Args(Taps1, 1, "MONO")}

FreeEnv ==
    {[ready |-> "any", order |-> "free", prompt |-> FALSE,
      samples |-> {1}]}

InitFree ==
    /\ args \in FreeArgs
    /\ env \in FreeEnv
    /\ cfg = NotConstructed
    /\ dut = NoDut
    /\ signal_in = NoToken
    /\ out_ready \in ReadyValues(env)
    /\ histL = <<>>
    /\ histR = <<>>
    /\ outs = <<>>
    /\ elapsed = 0
    /\ args2 = <<>>
    /\ cfg2 = NotConstructed
    /\ dut2 = NoDut
    /\ outs2 = <<>>
    /\ FiltersAbsent
    /\ probe = ProbeReset

NextFree == Construct \/ TickProbed

SpecFree == InitFree /\ [][NextFree]_vars

\* --- claims about the controller ---

\* the FSM state of the engine before and after a step
C33_Cycle ==
    {<<"IDLE", "IDLE">>, <<"IDLE", "MAC">>, <<"MAC", "MAC">>,
     <<"MAC", "SUM">>, <<"SUM", "OUTPUT">>, <<"OUTPUT", "OUTPUT">>,
     <<"OUTPUT", "IDLE">>}

C33_Transitions ==
    /\ (cfg.status = "new" /\ cfg'.status = "ok") =>
          /\ dut'.fsm = "IDLE"
          /\ dut'.set1 = 0 /\ dut'.set2 = 0
    /\ (Built /\ cfg'.status = "ok") =>
          /\ <<dut.fsm, dut'.fsm>> \in C33_Cycle
          /\ dut.fsm = "IDLE" =>
                (dut'.fsm = "MAC" <=> (dut.set1 = 1 /\ dut.set2 = 1))
          /\ dut.fsm = "SUM" => dut'.fsm = "OUTPUT"
          /\ (dut.fsm # "IDLE" /\ dut'.fsm = "IDLE") =>
                (dut'.set1 = 0 /\ dut'.set2 = 0)

\* C33: from reset the FSM is in IDLE; its only transitions are IDLE -> MAC,
\* taken exactly on a tick with set1 and set2 both high, MAC -> SUM,
\* SUM -> OUTPUT after one tick and OUTPUT -> IDLE; set1 and set2 are both
\* clear whenever IDLE is entered.
C33_StateOrder == [][C33_Transitions]_vars

\* IDLE entered again after two full cycles
C33_Witness ==
    /\ Built
    /\ IsProbed
    /\ dut.fsm = "IDLE"
    /\ dut.set1 = 0 /\ dut.set2 = 0
    /\ Len(outs) = 4
    /\ probe.mac_ticks > 0

\* --- claims about the MAC pass ---

\* C35: all 2 * slices accumulators are zero when MAC is entered; the engine
\* leaves MAC after exactly samples_per_slice + 1 ticks in it; and in that
\* pass every packed word address 0 .. samples_per_slice - 1 is accumulated
\* exactly once.
C35_MacPass ==
    (Built /\ IsProbed) =>
        /\ (dut.fsm = "MAC" /\ probe.mac_ticks = 0) =>
              \A k \in DOMAIN dut.madd_values : dut.madd_values[k] = 0
        /\ dut.fsm = "MAC" =>
              /\ probe.mac_ticks <= cfg.samples_per_slice
              /\ \A w \in DOMAIN probe.accumulated :
                    probe.accumulated[w] <= 1
        /\ dut.fsm = "SUM" =>
              /\ probe.mac_ticks = cfg.samples_per_slice + 1
              /\ \A w \in DOMAIN probe.accumulated :
                    probe.accumulated[w] = 1

\* what the engine does when ix is wide enough to hold
\* samples_per_slice + 1: zero accumulators on entry, samples_per_slice + 2
\* ticks in MAC, every word address accumulated exactly once
MacPassWhenIxFits ==
    (Built /\ IsProbed
       /\ cfg.samples_per_slice + 1 < Pow2(IxWidth(cfg))) =>
        /\ (dut.fsm = "MAC" /\ probe.mac_ticks = 0) =>
              \A k \in DOMAIN dut.madd_values : dut.madd_values[k] = 0
        /\ dut.fsm = "MAC" =>
              /\ probe.mac_ticks <= cfg.samples_per_slice + 1
              /\ \A w \in DOMAIN probe.accumulated :
                    probe.accumulated[w] <= 1
        /\ dut.fsm = "SUM" =>
              /\ probe.mac_ticks = cfg.samples_per_slice + 2
              /\ \A w \in DOMAIN probe.accumulated :
                    probe.accumulated[w] = 1

\* with samples_per_slice + 1 a power of two the pass never ends and the
\* words are accumulated again and again
MacPassStuck ==
    /\ Built /\ IsProbed
    /\ cfg.samples_per_slice = 1
    /\ dut.fsm = "MAC"
    /\ probe.mac_ticks = MaxProbeCount
    /\ probe.accumulated[0] >= 2

\* --- claims about the capture of the input ---

\* the token on signal_in is transferred on this tick
Transferred == signal_in.valid = 1 /\ SignalInReady(dut) = 1

\* after the tick the write port of the channel puts the token's payload into
\* the field of age 0 of word 0, and the channel's flag is set
StoredLeft ==
    /\ dut.set1 = 0 /\ dut'.set1 = 1
    /\ dut'.w1_en = 1 /\ dut'.w1_addr = 0
    /\ Slot(dut'.w1_data, cfg.slices - 1) = signal_in.payload

StoredRight ==
    /\ dut.set2 = 0 /\ dut'.set2 = 1
    /\ dut'.w2_en = 1 /\ dut'.w2_addr = 0
    /\ Slot(dut'.w2_data, cfg.slices - 1) = signal_in.payload

C36_Stored ==
    (Built /\ cfg'.status = "ok" /\ Transferred) =>
        \/ signal_in.first = 1 /\ StoredLeft /\ dut'.set2 = dut.set2
        \/ signal_in.last = 1 /\ StoredRight /\ dut'.set1 = dut.set1

\* C36: every token transferred on signal_in is stored, a first-tagged one at
\* position 0 of the left sample memory, a last-tagged one at position 0 of
\* the right sample memory, one of each per pair; no token is transferred
\* and then discarded.
C36_EveryTokenStored == [][C36_Stored]_vars

\* what holds: a transferred token is stored when it is first-tagged with
\* set1 low, or otherwise last-tagged with set2 low
CaptureOfAwaited ==
    (Built /\ cfg'.status = "ok" /\ Transferred) =>
        /\ (signal_in.first = 1 /\ dut.set1 = 0) => StoredLeft
        /\ (~(signal_in.first = 1 /\ dut.set1 = 0)
               /\ signal_in.last = 1 /\ dut.set2 = 0) => StoredRight

CaptureWhenAwaited == [][CaptureOfAwaited]_vars

\* ---------------------------------------------------------------------------
\* The sample memories of the StereoConvolutionMAC over more pairs than taps:
\* a producer that follows the handshake and feeds the two tokens of a pair
\* in either order; signal_out.ready held high.
\* ---------------------------------------------------------------------------

MaxHistoryPairs == 5

\* slices 1 with 2 and 4 words, slices 2 with 2 words
HistoryArgs ==
    {Args(Taps2, 2, "STEREO"), Args(Taps4, 2, "MONO"), Args(Taps4, 4, "MONO")}

HistoryEnv ==
    {[ready |-> "high", order |-> "any", prompt |-> TRUE,
      samples |-> {MinVal, 1}, pairs |-> MaxHistoryPairs]}

InitHistory == InitWith(HistoryArgs, HistoryEnv)

SpecHistory == InitHistory /\ [][Next]_vars

\* the accepted sample of age a (0: the latest), 0 when there is none yet
SampleOfAge(hist, a) == IF Len(hist) > a THEN hist[Len(hist) - a] ELSE 0

\* the field of a sample memory that is aligned with tap a of the tap
\* memories: word a div slices, field slices - 1 - (a mod slices)
FieldOfAge(mem, c, a) ==
    AsSigned(Slot(mem[a \div c.slices], c.slices - 1 - (a % c.slices)),
             BitWidth)

\* a tick that enters MAC leaves each memory with the sample of age a in the
\* field of age a, for all tapcount ages
C34_AtEntry ==
    (Built /\ dut.fsm = "IDLE" /\ dut'.fsm = "MAC") =>
        \A a \in 0..(cfg.tapcount - 1) :
            /\ FieldOfAge(dut'.samples1_memory, cfg, a) = SampleOfAge(histL', a)
            /\ FieldOfAge(dut'.samples2_memory, cfg, a) = SampleOfAge(histR', a)

\* once the pass is over the sample of age a is in the field of age a + 1,
\* and the sample of age tapcount - 1 is in no field
C34_AfterPass ==
    (Built /\ dut.fsm = "OUTPUT") =>
        \A a \in 0..(cfg.tapcount - 2) :
            /\ FieldOfAge(dut.samples1_memory, cfg, a + 1) = SampleOfAge(histL, a)
            /\ FieldOfAge(dut.samples2_memory, cfg, a + 1) = SampleOfAge(histR, a)

\* C34: on every tick that enters MAC each channel's sample memory holds the
\* channel's latest tapcount accepted samples, the one of age a in word
\* a div slices, field slices - 1 - (a mod slices), as tap a in the tap
\* memory, and 0 where no sample has arrived; after the MAC pass every
\* stored sample is at the position of age a + 1 and the sample of age
\* tapcount - 1 is gone.
C34_SampleHistory == [][C34_AtEntry]_vars /\ []C34_AfterPass

\* four taps in words of two, after the pass for the fifth pair: the first
\* pair has been discarded
C34_Witness ==
    /\ Built
    /\ cfg.slices = 2 /\ cfg.tapcount = 4
    /\ dut.fsm = "OUTPUT"
    /\ Len(histL) = 5 /\ Len(histR) = 5
    /\ histL[1] # histL[2] /\ histL[4] # histL[5]
    /\ histR[2] # histL[2]
    /\ FieldOfAge(dut.samples1_memory, cfg, 3) = histL[3]
    /\ FieldOfAge(dut.samples2_memory, cfg, 1) = histR[5]

\* ---------------------------------------------------------------------------
\* Two FixedPointFIRFilters built from the same taps, one with mac_loop and
\* one without, driven by the same enable_in and signal_in.  The bench
\* pulses enable_in for one tick at a time, the pulses at least n + 2 ticks
\* apart, and notes what the parallel filter shows on the tick after the
\* pulse, when the accepted sample is at index 0 of its delay line.
\* ---------------------------------------------------------------------------

MaxPairAccepted == 3

FirPairSamples == {FirMinVal, 1, FirMaxVal}

\* the inputs the bench may drive on the next tick: <<enable_in, signal_in>>
FirPairInputs(p) ==
    IF p.count < MaxPairAccepted
       /\ (p.since = 0 \/ p.since >= Len(p.serial.taps) + 2)
    THEN {<<0, 0>>} \cup {<<1, s>> : s \in FirPairSamples}
    ELSE {<<0, 0>>}

FirPairReset(taps, inp) ==
    [kind |-> "firpair",
     serial |-> FirReset(taps, TRUE, inp[1], inp[2]),
     parallel |-> FirReset(taps, FALSE, inp[1], inp[2]),
     count |-> 0, since |-> 0, expected |-> 0]

IsPair == pair.kind = "firpair"

\* one tick of both filters; since counts the ticks from the last pulse up
\* to n + 2
FirPairTick ==
    /\ IsPair
    /\ LET took == pair.serial.enable_in = 1
           serial1 == FirStep(pair.serial)
           parallel1 == FirStep(pair.parallel)
           noted == [pair EXCEPT
                       !.count = pair.count + (IF took THEN 1 ELSE 0),
                       !.since = IF took THEN 1
                                 ELSE IF pair.since = 0 THEN 0
                                 ELSE Min(pair.since + 1,
                                          Len(pair.serial.taps) + 2),
                       !.expected = IF took THEN FirSignalOut(parallel1)
                                    ELSE pair.expected]
       IN  \E inp \in FirPairInputs(noted) :
              pair' = [noted EXCEPT
                         !.serial = [serial1 EXCEPT !.enable_in = inp[1],
                                                    !.signal_in = inp[2]],
                         !.parallel = [parallel1 EXCEPT !.enable_in = inp[1],
                                                        !.signal_in = inp[2]]]
    /\ UNCHANGED <<convVars, filterVars>>

InitFirPair ==
    /\ ConvAbsent
    /\ FiltersAbsent
    /\ \E taps \in FirTapSets :
         \E inp \in FirPairInputs([count |-> 0, since |-> 0,
                                   serial |-> [taps |-> taps]]) :
            pair = FirPairReset(taps, inp)

NextFirPair == FirPairTick

SpecFirPair == InitFirPair /\ [][NextFirPair]_vars

\* --- claim about the two modes ---

\* C37: with the same taps and the same accepted samples, enable_in pulsed
\* for one tick at a time and the pulses at least n + 2 ticks apart, the
\* value the serial filter commits to signal_out for an accepted sample is
\* the value the parallel filter shows for the delay line with that sample
\* at index 0.
C37_ModesAgree ==
    (IsPair /\ pair.count >= 1 /\ pair.serial.fsm = "IDLE") =>
        FirSignalOut(pair.serial) = pair.expected

\* what the serial filter commits instead: operand 0 is x[0] as it was before
\* the accepted sample was shifted in, the others are read after the shift,
\* and every tap is cut to the signed(bitwidth) register b (stated for two
\* taps and more, where the delay line still holds the earlier sample)
SerialCommitted(f) ==
    LET n == Len(f.taps)
        operand(i) == IF i = 0 THEN f.x[2] ELSE f.x[i + 1]
        term(i) == FirShift(WrapSigned(operand(i), FirBitWidth)
                            * WrapSigned(FirTap(f.taps, i), FirBitWidth))
    IN  WrapSigned(SumRange([i \in 0..(n - 1) |-> term(i)], 0, n - 1),
                   FirBitWidth)

SerialLagsBehind ==
    (IsPair /\ pair.count >= 1 /\ pair.serial.fsm = "IDLE"
        /\ Len(pair.serial.taps) > 1) =>
        FirSignalOut(pair.serial) = SerialCommitted(pair.serial)

\* ---------------------------------------------------------------------------
\* FixedPointCICFilter (amlib/dsp/fixedpointcicfilter.py): the timing of the
\* output and the two phases of elaborate(), on the filter of SpecCic.
\* ---------------------------------------------------------------------------

\* signal_out.eq(y[n - 1] >> (width - bitwidth)) of a comb-edge tick
CicSignalOut(c) ==
    WrapSigned(c.y[Len(c.y)] \div Pow2(c.width - c.bitwidth), c.bitwidth)

\* strobe_out follows comb_edge by one tick, and signal_out changes only on
\* a comb-edge tick, to the value that tick commits
CicOutputFollows ==
    IsCic =>
        /\ cic'.strobe_out = cic.comb_edge
        /\ cic.comb_edge = 1 => cic'.signal_out = CicSignalOut(cic)
        /\ cic'.signal_out # cic.signal_out => cic'.strobe_out = 1

\* the comb-edge flag is high on the tick after a wrap of the counter, and
\* on no other tick
CicEdgePerWrap ==
    IsCic => (cic'.comb_edge = 1 <=> CicWraps(cic))

CicCounterInRange ==
    IsCic => cic.decimate_counter \in 0..(cic.decimation - 1)

\* C38: the comb-edge flag is high for exactly one tick per wrap of the
\* decimation counter (the tick after the wrap); strobe_out is high exactly
\* on the tick after a tick with the flag high, and that is the tick on
\* which signal_out shows the value just committed; signal_out changes on
\* no tick where strobe_out is low; the decimation counter stays in
\* 0..decimation-1.
C38_OutputTiming ==
    /\ [][CicEdgePerWrap]_vars
    /\ [][CicOutputFollows]_vars
    /\ []CicCounterInRange

\* the same without back-to-back wraps: holds for decimation >= 2
CicEdgePerWrapFromTwo ==
    (IsCic /\ cic.decimation >= 2) => (cic'.comb_edge = 1 <=> CicWraps(cic))

OutputTimingFromTwo ==
    /\ [][CicEdgePerWrapFromTwo]_vars
    /\ [][CicOutputFollows]_vars
    /\ []CicCounterInRange

\* a wrap whose comb edge is lost: decimation 1, a strobe on a comb-edge tick
CicLostEdge ==
    /\ IsCic
    /\ cic.comb_edge = 1
    /\ CicWraps(cic)

\* the registers are signed(width): a sum or difference keeps its low width
\* bits
C39_Integrators ==
    IsCic =>
        IF cic.strobe_in = 1
        THEN /\ cic'.x[1] = WrapSigned(cic.x[1] + cic.signal_in, cic.width)
             /\ \A i \in 2..cic.stage :
                   cic'.x[i] = WrapSigned(cic.x[i] + cic.x[i - 1], cic.width)
        ELSE cic'.x = cic.x

C39_Combs ==
    IsCic =>
        IF cic.comb_edge = 1
        THEN /\ cic'.y[1] = WrapSigned(cic.x[cic.stage] - cic.dy[1], cic.width)
             /\ cic'.dy[1] = cic.x[cic.stage]
             /\ \A i \in 2..cic.stage :
                   /\ cic'.y[i] = WrapSigned(cic.y[i - 1] - cic.dy[i], cic.width)
                   /\ cic'.dy[i] = cic.y[i - 1]
        ELSE /\ cic'.y = cic.y
             /\ cic'.dy = cic.dy
             /\ cic'.signal_out = cic.signal_out

\* C39: on a tick with strobe_in = 1, x[0] becomes x[0] + signal_in and each
\* x[i+1] becomes x[i+1] + x[i], the sums wrapped to the signed width-bit
\* registers; on a tick with strobe_in = 0 no integrator changes; on a
\* comb-edge tick y[0] becomes x[n-1] - dy[0] and y[i+1] becomes
\* y[i] - dy[i+1], wrapped the same way, dy[0] becomes x[n-1] and dy[i+1]
\* becomes y[i]; every value on the right is the one before the tick; on a
\* tick without comb edge y, dy and signal_out are unchanged.
C39_TwoPhase == [][C39_Integrators]_vars /\ [][C39_Combs]_vars

\* the sums and differences as integers, not wrapped
C39_ExactIntegrators ==
    (IsCic /\ cic.strobe_in = 1) =>
        /\ cic'.x[1] = cic.x[1] + cic.signal_in
        /\ \A i \in 2..cic.stage : cic'.x[i] = cic.x[i] + cic.x[i - 1]

C39_ExactCombs ==
    (IsCic /\ cic.comb_edge = 1) =>
        /\ cic'.y[1] = cic.x[cic.stage] - cic.dy[1]
        /\ \A i \in 2..cic.stage : cic'.y[i] = cic.y[i - 1] - cic.dy[i]

C39_ExactUpdate ==
    /\ [][C39_ExactIntegrators]_vars
    /\ [][C39_ExactCombs]_vars
    /\ [][C39_Combs]_vars

\* two stages after several comb edges, on a tick that is both a strobe and
\* a comb edge, with every register in use and the two stages apart
C39_Witness ==
    /\ IsCic
    /\ cic.stage = 2
    /\ cic.decimation = 2
    /\ cic.strobe_in = 1
    /\ cic.comb_edge = 1
    /\ cic.x[1] # 0 /\ cic.x[2] # 0 /\ cic.x[1] # cic.x[2]
    /\ cic.y[1] # 0 /\ cic.y[2] # 0 /\ cic.y[1] # cic.y[2]
    /\ cic.dy[1] # 0 /\ cic.dy[2] # 0 /\ cic.dy[1] # cic.dy[2]
    /\ cic.dy[1] # cic.x[2]

==============================================================================
